---- MODULE Spec2Model ----
(***************************************************************************)
(* A model of the waveform editor (src/src/editor/js) and of the playback  *)
(* renderer that samples the exported curve, as a state machine.           *)
(*                                                                         *)
(* JavaScript numbers are modelled as exact rationals <<n, d>> in lowest   *)
(* terms (d = 0 stands for +/-Infinity and NaN).  Point objects live in a  *)
(* heap and are referred to by identity, as in the source: the point Map,  *)
(* selectedPoint, the point list of the sidebar and the context menu hold  *)
(* references, so a reference can outlive the Map entry of its object.     *)
(*                                                                         *)
(* Every handler is a function from the editor's state (a record of the    *)
(* variables) to the state it leaves; an action applies one handler.       *)
(***************************************************************************)
EXTENDS Integers, Sequences, FiniteSets, TLC

VARIABLES
    heap,                 \* Point objects by identity
    points,               \* this.points: Map name -> Point, in insertion order
    selectedPoint,        \* this.selectedPoint (0: null)
    selectedPoints,       \* this.selectedPoints: Set of Map keys
    draggingPoint,        \* this.draggingPoint (0: null)
    draggingControlPoint, \* this.draggingControlPoint ([point |-> 0]: null)
    isBoxSelecting, boxStartX, boxStartY,
    lastMouseX, lastMouseY,
    isTransforming, transformStartPoints, transformOrigin,
    history, currentHistoryIndex,
    zoomLevel, panX, panY, isPanning, isSpacePressed,
    isPreviewMode,
    storage,              \* localStorage item 'waveformState'
    list,                 \* the sidebar's point list: the Point of each item
    listCallback,         \* whether the list was built with onPointSelect
    menu,                 \* the open context menu and the point it captured
    shared,               \* handle objects held by a live Point and by a snapshot
    lastOp,               \* observer: the handler that ran last and its commits
    probe,                \* observer: edits and undos counted from a base state
    customWaveform,       \* renderer: this.customWaveform (Null: none)
    rendererBaselineY,    \* renderer: this.baselineY
    sampled,              \* observer: the last call of generateDataPoint
    tickDirty,            \* observer: a mouse-move changed points, not yet committed
    previewEntry,         \* observer: the editing state when preview was entered
    steps                 \* observer: the number of handlers run

vars == <<heap, points, selectedPoint, selectedPoints, draggingPoint,
          draggingControlPoint, isBoxSelecting, boxStartX, boxStartY,
          lastMouseX, lastMouseY, isTransforming, transformStartPoints,
          transformOrigin, history, currentHistoryIndex, zoomLevel, panX, panY,
          isPanning, isSpacePressed, isPreviewMode, storage, list,
          listCallback, menu, shared, customWaveform, rendererBaselineY, sampled,
          lastOp, probe, tickDirty, previewEntry, steps>>

---------------------------------------------------------------------------
(* Bounds of the model.                                                    *)

MaxSteps == 4       \* a run of the editor takes at most this many handlers
MaxCurveSteps == 3  \* the same, for the runs of the curve store's operations
MaxGestureSteps == 4  \* the same, for the runs of mouse and key events
MaxZoomSteps == 3   \* the same, for the runs of wheel events
MaxSamplerSteps == 2  \* the same, for the calls of the sampler

---------------------------------------------------------------------------
(* Numbers: exact rationals.                                               *)

RECURSIVE GCD(_, _)
GCD(a, b) == IF b = 0 THEN a ELSE GCD(b, a % b)

Abs(a) == IF a < 0 THEN -a ELSE a

Sign(a) == IF a < 0 THEN -1 ELSE IF a = 0 THEN 0 ELSE 1

NaN == <<0, 0>>

Norm(n, d) ==
    IF d = 0 THEN <<Sign(n), 0>>
    ELSE LET g == GCD(Abs(n), Abs(d))
         IN  <<(Sign(d) * n) \div g, Abs(d) \div g>>

I(n) == <<n, 1>>

\* products are taken after cancelling common factors, to stay in range
QMul(a, b) ==
    IF a[2] = 0 \/ b[2] = 0 THEN Norm(a[1] * b[1], 0)
    ELSE LET g1 == GCD(Abs(a[1]), b[2])
             g2 == GCD(Abs(b[1]), a[2])
         IN  Norm((a[1] \div g1) * (b[1] \div g2), (a[2] \div g2) * (b[2] \div g1))
QAdd(a, b) ==
    IF a[2] = 0 \/ b[2] = 0
    THEN IF a[2] # 0 THEN b
         ELSE IF b[2] # 0 \/ a = b THEN a
         ELSE NaN
    ELSE LET g == GCD(a[2], b[2])
         IN  Norm(a[1] * (b[2] \div g) + b[1] * (a[2] \div g), (a[2] \div g) * b[2])
QNeg(a) == <<-a[1], a[2]>>
QSub(a, b) == QAdd(a, QNeg(b))
QDiv(a, b) == QMul(a, IF b[1] < 0 THEN <<-b[2], -b[1]>> ELSE <<b[2], b[1]>>)
IsNaN(a) == a = NaN
QLt(a, b) ==
    /\ ~IsNaN(a) /\ ~IsNaN(b) /\ a # b
    /\ IF a[2] = 0 /\ b[2] = 0 THEN a[1] < b[1]
       ELSE IF a[2] = 0 \/ b[2] = 0 THEN a[1] * b[2] < b[1] * a[2]
       ELSE LET g == GCD(a[2], b[2])
            IN  a[1] * (b[2] \div g) < b[1] * (a[2] \div g)
QLe(a, b) == ~IsNaN(a) /\ ~IsNaN(b) /\ (a = b \/ QLt(a, b))
QGe(a, b) == QLe(b, a)
QGt(a, b) == QLt(b, a)
\* Math.min / Math.max: NaN if either argument is NaN
QMin(a, b) == IF IsNaN(a) \/ IsNaN(b) THEN NaN ELSE IF QLe(a, b) THEN a ELSE b
QMax(a, b) == IF IsNaN(a) \/ IsNaN(b) THEN NaN ELSE IF QLe(a, b) THEN b ELSE a

---------------------------------------------------------------------------
(* The canvas: its container's size and the device pixel ratio.            *)

CanvasWidth == 400
CanvasHeight == 200
Dpr == 1

canvasElementWidth == I(CanvasWidth * Dpr)
baselineY == QDiv(I(CanvasHeight), I(2))

---------------------------------------------------------------------------
(* Point objects and the Map that holds them.                              *)

Point(x, y, name, color, type) ==
    [x |-> x, y |-> y, name |-> name, color |-> color, type |-> type,
     cp1 |-> [x |-> x, y |-> y], cp2 |-> [x |-> x, y |-> y],
     starred |-> FALSE]

MapHas(m, k) == \E i \in 1..Len(m) : m[i].key = k
MapGet(m, k) == IF MapHas(m, k)
                THEN m[CHOOSE i \in 1..Len(m) : m[i].key = k].id
                ELSE 0
MapSet(m, k, id) ==
    IF MapHas(m, k)
    THEN [i \in 1..Len(m) |-> IF m[i].key = k THEN [key |-> k, id |-> id] ELSE m[i]]
    ELSE Append(m, [key |-> k, id |-> id])
MapDelete(m, k) == SelectSeq(m, LAMBDA e : e.key # k)
MapIds(m) == {m[i].id : i \in 1..Len(m)}
MapKeys(m) == {m[i].key : i \in 1..Len(m)}

SeqRange(s) == {s[i] : i \in 1..Len(s)}

\* the objects some reference of the editor still reaches
InUse(s) ==
    (MapIds(s.points) \cup SeqRange(s.list)
       \cup {s.selectedPoint, s.draggingPoint, s.draggingControlPoint.point,
             s.menu.point}) \ {0}

\* `new Point(...)`: the object gets an identity no reference holds
FreshId(s) == CHOOSE n \in 1..(Cardinality(DOMAIN s.heap) + 1) : n \notin DOMAIN s.heap

Alloc(s, obj) ==
    LET id == FreshId(s)
    IN  [st |-> [s EXCEPT !.heap = [j \in DOMAIN s.heap \cup {id} |->
                                      IF j = id THEN obj ELSE s.heap[j]]],
         id |-> id]

\* garbage collection: objects no reference reaches leave the heap
Collect(s) == [s EXCEPT !.heap = [j \in InUse(s) |-> s.heap[j]]]

---------------------------------------------------------------------------
(* The state as a record of the variables.                                 *)

State ==
    [heap |-> heap, points |-> points, selectedPoint |-> selectedPoint,
     selectedPoints |-> selectedPoints, draggingPoint |-> draggingPoint,
     draggingControlPoint |-> draggingControlPoint,
     isBoxSelecting |-> isBoxSelecting, boxStartX |-> boxStartX,
     boxStartY |-> boxStartY, lastMouseX |-> lastMouseX,
     lastMouseY |-> lastMouseY, isTransforming |-> isTransforming,
     transformStartPoints |-> transformStartPoints,
     transformOrigin |-> transformOrigin, history |-> history,
     currentHistoryIndex |-> currentHistoryIndex, zoomLevel |-> zoomLevel,
     panX |-> panX, panY |-> panY, isPanning |-> isPanning,
     isSpacePressed |-> isSpacePressed, isPreviewMode |-> isPreviewMode,
     storage |-> storage, list |-> list, listCallback |-> listCallback,
     menu |-> menu, shared |-> shared,
     \* what the running handler did, for the observers
     commits |-> 0, dropped |-> 0, evicted |-> 0, advisory |-> "",
     \* what the running handler hands to the download, if anything
     exported |-> <<>>,
     \* whether localStorage.setItem succeeds during this handler
     storageOk |-> TRUE]

NoMenu == [open |-> FALSE, point |-> 0]
NoHandle == [point |-> 0, handle |-> ""]
Absent == [points |-> <<>>, actionName |-> "(absent)"]
\* an item of localStorage that JSON.parse rejects
Corrupt == [points |-> <<>>, actionName |-> "(not JSON)"]

toast(s, msg) == [s EXCEPT !.advisory = msg]

---------------------------------------------------------------------------
(* UI.updatePointList: one item per Point of the Map, capturing the Point. *)

updatePointList(s, withCallback) ==
    [s EXCEPT !.list = [i \in 1..Len(s.points) |-> s.points[i].id],
              !.listCallback = withCallback]

---------------------------------------------------------------------------
(* History.                                                                *)

\* the serializable copy saveState makes of one point
PointData(p) ==
    [x |-> p.x, y |-> p.y, name |-> p.name, color |-> p.color,
     type |-> p.type, starred |-> p.starred,
     cp1 |-> [x |-> p.cp1.x, y |-> p.cp1.y],
     cp2 |-> [x |-> p.cp2.x, y |-> p.cp2.y]]

LivePointData(s) == [i \in 1..Len(s.points) |-> PointData(s.heap[s.points[i].id])]

maxHistorySize == 50

\* the shared handle objects after slice(0, index + 1) and shift(): an
\* entry that stays keeps its objects, at its new place
keptLinks(links, keptLength, shifted) ==
    {[l EXCEPT !.entry = IF shifted THEN l.entry - 1 ELSE l.entry] :
        l \in {m \in links : m.entry <= keptLength /\ (shifted => m.entry > 1)}}

\* saveState without `this.history.slice(0, this.currentHistoryIndex + 1)`
saveState_keepsRedoTail(s, actionName) ==
    LET state == [points |-> LivePointData(s), actionName |-> actionName]
        pushed == Append(s.history, state)
    IN  [s EXCEPT !.history = pushed,
                  !.currentHistoryIndex = s.currentHistoryIndex + 1,
                  !.commits = s.commits + 1,
                  !.dropped = 0,
                  !.storage = state]

\* saveState whose eviction leaves the index where the push put it
saveState_noIndexAdjust(s, actionName) ==
    LET state == [points |-> LivePointData(s), actionName |-> actionName]
        kept == SubSeq(s.history, 1, s.currentHistoryIndex + 1)
        pushed == Append(kept, state)
        over == Len(pushed) > maxHistorySize
        s1 == [s EXCEPT !.history = IF over THEN Tail(pushed) ELSE pushed,
                        !.currentHistoryIndex = s.currentHistoryIndex + 1,
                        !.commits = s.commits + 1,
                        !.dropped = Len(s.history) - Len(kept),
                        !.evicted = IF over THEN 1 ELSE 0]
    IN  IF s.storageOk THEN [s1 EXCEPT !.storage = state]
        ELSE toast(s1, "Error saving state")

\* saveState that gives up when localStorage.setItem throws
saveState_abortsOnStorageFailure(s, actionName) ==
    LET state == [points |-> LivePointData(s), actionName |-> actionName]
        kept == SubSeq(s.history, 1, s.currentHistoryIndex + 1)
        pushed == Append(kept, state)
        over == Len(pushed) > maxHistorySize
        s1 == [s EXCEPT !.history = IF over THEN Tail(pushed) ELSE pushed,
                        !.currentHistoryIndex =
                            IF over THEN s.currentHistoryIndex
                            ELSE s.currentHistoryIndex + 1,
                        !.shared = keptLinks(s.shared, Len(kept), over),
                        !.commits = s.commits + 1,
                        !.dropped = Len(s.history) - Len(kept),
                        !.evicted = IF over THEN 1 ELSE 0]
    IN  IF s.storageOk THEN [s1 EXCEPT !.storage = state]
        ELSE toast([s EXCEPT !.commits = s.commits + 1], "Error saving state")

saveState(s, actionName) ==
    LET state == [points |-> LivePointData(s), actionName |-> actionName]
        kept == SubSeq(s.history, 1, s.currentHistoryIndex + 1)
        pushed == Append(kept, state)
        over == Len(pushed) > maxHistorySize
        s1 == [s EXCEPT !.history = IF over THEN Tail(pushed) ELSE pushed,
                        !.currentHistoryIndex =
                            IF over THEN s.currentHistoryIndex
                            ELSE s.currentHistoryIndex + 1,
                        !.shared = keptLinks(s.shared, Len(kept), over),
                        !.commits = s.commits + 1,
                        !.dropped = Len(s.history) - Len(kept),
                        !.evicted = IF over THEN 1 ELSE 0]
    IN  IF s.storageOk THEN [s1 EXCEPT !.storage = state]
        ELSE toast(s1, "Error saving state")

RECURSIVE restorePoints(_, _, _)
restorePoints(s, data, i) ==
    IF i > Len(data) THEN s
    ELSE LET d == data[i]
             a == Alloc(s, [Point(d.x, d.y, d.name, d.color, d.type)
                              EXCEPT !.cp1 = d.cp1, !.cp2 = d.cp2,
                                     !.starred = d.starred])
         IN  restorePoints([a.st EXCEPT !.points = MapSet(a.st.points, d.name, a.id)],
                           data, i + 1)

\* restoreState with `point.cp1 = pointData.cp1` (and cp2): the restored
\* Point holds the snapshot's handle objects
restoreState_sharesHandles(s, state) ==
    LET cleared == [s EXCEPT !.points = <<>>]
        filled == restorePoints(cleared, state.points, 1)
        last == {j \in 1..Len(state.points) :
                    \A k \in (j + 1)..Len(state.points) :
                        state.points[k].name # state.points[j].name}
        links == {[id |-> MapGet(filled.points, state.points[j].name),
                   handle |-> h, entry |-> s.currentHistoryIndex + 1, at |-> j] :
                      j \in last, h \in {"cp1", "cp2"}}
    IN  updatePointList([filled EXCEPT !.shared = s.shared \cup links], TRUE)

restoreState(s, state) ==
    LET cleared == [s EXCEPT !.points = <<>>]
        filled == restorePoints(cleared, state.points, 1)
    IN  updatePointList(filled, TRUE)

\* undo that restores the first entry again instead of refusing at index 0
undo_restoresAtStart(s) ==
    IF s.currentHistoryIndex < 0 THEN toast(s, "Nothing to undo")
    ELSE LET at == IF s.currentHistoryIndex = 0 THEN 0 ELSE s.currentHistoryIndex - 1
             s1 == [s EXCEPT !.currentHistoryIndex = at]
         IN  toast(restoreState(s1, s1.history[at + 1]), "Undo")

undo(s) ==
    IF s.currentHistoryIndex <= 0 THEN toast(s, "Nothing to undo")
    ELSE LET s1 == [s EXCEPT !.currentHistoryIndex = s.currentHistoryIndex - 1]
         IN  toast(restoreState(s1, s1.history[s1.currentHistoryIndex + 1]), "Undo")

redo(s) ==
    IF s.currentHistoryIndex >= Len(s.history) - 1 THEN toast(s, "Nothing to redo")
    ELSE LET s1 == [s EXCEPT !.currentHistoryIndex = s.currentHistoryIndex + 1]
         IN  toast(restoreState(s1, s1.history[s1.currentHistoryIndex + 1]), "Redo")

---------------------------------------------------------------------------
(* Selection, and the Curve Store's operations.                            *)

selectPoint(s, id) ==
    updatePointList([s EXCEPT !.selectedPoint = id], TRUE)

PointName(n) == "Point " \o ToString(n)

RECURSIVE firstUnusedFrom(_, _)
firstUnusedFrom(m, index) ==
    IF MapHas(m, PointName(index)) THEN firstUnusedFrom(m, index + 1)
    ELSE PointName(index)

\* generateUniquePointName with `let index = 1`
generateUniquePointName_fromOne(m) == firstUnusedFrom(m, 1)

generateUniquePointName(m) == firstUnusedFrom(m, Len(m) + 1)

\* Array.prototype.sort((a, b) => a - b), by insertion
RECURSIVE insertSorted(_, _)
insertSorted(sorted, v) ==
    IF sorted = <<>> THEN <<v>>
    ELSE IF QLt(v, Head(sorted)) THEN <<v>> \o sorted
    ELSE <<Head(sorted)>> \o insertSorted(Tail(sorted), v)

RECURSIVE sortNumbers(_)
sortNumbers(xs) ==
    IF xs = <<>> THEN <<>>
    ELSE insertSorted(sortNumbers(SubSeq(xs, 1, Len(xs) - 1)), xs[Len(xs)])

positionsOf(s) == sortNumbers([i \in 1..Len(s.points) |-> s.heap[s.points[i].id].x])

\* the gap search after the selected point (0-based i of the source is i - 1)
\* a gap search that puts the point in the middle of the interval
RECURSIVE gapAfter_centred(_, _, _)
gapAfter_centred(positions, selX, i) ==
    IF i > Len(positions) - 1 THEN [found |-> FALSE, x |-> NaN]
    ELSE IF QGe(positions[i], selX)
            /\ QGe(QSub(positions[i + 1], positions[i]), I(100))
         THEN [found |-> TRUE,
               x |-> QAdd(positions[i],
                          QDiv(QSub(positions[i + 1], positions[i]), I(2)))]
         ELSE gapAfter_centred(positions, selX, i + 1)

RECURSIVE gapAfter(_, _, _)
gapAfter(positions, selX, i) ==
    IF i > Len(positions) - 1 THEN [found |-> FALSE, x |-> NaN]
    ELSE IF QGe(positions[i], selX)
            /\ QGe(QSub(positions[i + 1], positions[i]), I(100))
         THEN [found |-> TRUE, x |-> QAdd(positions[i], I(50))]
         ELSE gapAfter(positions, selX, i + 1)

\* a gap search that puts the point in the middle of the gap
RECURSIVE gapFromLeft_centred(_, _, _)
gapFromLeft_centred(positions, gapStart, i) ==
    IF i > Len(positions) THEN [found |-> FALSE, x |-> NaN]
    ELSE IF QGe(QSub(positions[i], gapStart), I(100))
         THEN [found |-> TRUE,
               x |-> QAdd(gapStart, QDiv(QSub(positions[i], gapStart), I(2)))]
         ELSE gapFromLeft_centred(positions, positions[i], i + 1)

\* the gap search from the left edge, with no selection
RECURSIVE gapFromLeft(_, _, _)
gapFromLeft(positions, gapStart, i) ==
    IF i > Len(positions) THEN [found |-> FALSE, x |-> NaN]
    ELSE IF QGe(QSub(positions[i], gapStart), I(100))
         THEN [found |-> TRUE, x |-> QAdd(gapStart, I(50))]
         ELSE gapFromLeft(positions, positions[i], i + 1)

RECURSIVE maxXFrom(_, _, _)
maxXFrom(s, i, acc) ==
    IF i > Len(s.points) THEN acc
    ELSE maxXFrom(s, i + 1, QMax(acc, s.heap[s.points[i].id].x))

\* where addPoint puts the new point: [x, crowded]
addPointX(s) ==
    LET rightEdge == QSub(canvasElementWidth, I(50))
    IN  IF s.selectedPoint # 0
        THEN LET selX == s.heap[s.selectedPoint].x
                 first == QMin(QAdd(selX, I(100)), rightEdge)
                 gap == gapAfter(positionsOf(s), selX, 1)
             IN  IF QGe(first, rightEdge)
                 THEN IF gap.found THEN [x |-> gap.x, crowded |-> FALSE]
                      ELSE [x |-> rightEdge, crowded |-> TRUE]
                 ELSE [x |-> first, crowded |-> FALSE]
        ELSE LET first == QAdd(maxXFrom(s, 1, I(50)), I(100))
                 gap == gapFromLeft(positionsOf(s), I(50), 1)
             IN  IF QGe(first, rightEdge)
                 THEN IF gap.found THEN [x |-> gap.x, crowded |-> FALSE]
                      ELSE [x |-> rightEdge, crowded |-> TRUE]
                 ELSE [x |-> first, crowded |-> FALSE]

addPoint(s) ==
    LET name == generateUniquePointName(s.points)
        place == addPointX(s)
        a == Alloc(s, Point(place.x, baselineY, name, "#ff0000", "sharp"))
        s1 == [a.st EXCEPT !.points = MapSet(a.st.points, name, a.id)]
        s2 == saveState(selectPoint(s1, a.id), "Add Point")
    IN  toast(s2, IF place.crowded THEN "Canvas is getting crowded; Point added"
                  ELSE "Point added")

\* deletePoint with the guard `this.points.size < 2`
deletePoint_offByOne(s, id) ==
    IF Len(s.points) < 2
    THEN toast(s, "Cannot delete: minimum 2 points required")
    ELSE LET s1 == [s EXCEPT !.points = MapDelete(s.points, s.heap[id].name),
                             !.selectedPoint =
                                 IF s.selectedPoint = id THEN 0 ELSE s.selectedPoint]
         IN  toast(saveState(s1, "Delete Point"), "Point deleted")

\* deletePoint whose refusal drops the selection
deletePoint_clearsSelection(s, id) ==
    IF Len(s.points) <= 2
    THEN toast([s EXCEPT !.selectedPoint = 0, !.selectedPoints = {}],
               "Cannot delete: minimum 2 points required")
    ELSE LET s1 == [s EXCEPT !.points = MapDelete(s.points, s.heap[id].name),
                             !.selectedPoint =
                                 IF s.selectedPoint = id THEN 0 ELSE s.selectedPoint]
         IN  toast(saveState(s1, "Delete Point"), "Point deleted")

deletePoint(s, id) ==
    IF Len(s.points) <= 2
    THEN toast(s, "Cannot delete: minimum 2 points required")
    ELSE LET s1 == [s EXCEPT !.points = MapDelete(s.points, s.heap[id].name),
                             !.selectedPoint =
                                 IF s.selectedPoint = id THEN 0 ELSE s.selectedPoint]
         IN  toast(saveState(s1, "Delete Point"), "Point deleted")

flipType(t) == IF t = "smooth" THEN "sharp" ELSE "smooth"

togglePointType(s, id) ==
    toast(saveState([s EXCEPT !.heap[id].type = flipType(s.heap[id].type)],
                    "Toggle Point Type"),
          "Point type changed")

toggleSelectedPointType(s) ==
    IF s.selectedPoint # 0
    THEN toast(saveState([s EXCEPT !.heap[s.selectedPoint].type =
                                       flipType(s.heap[s.selectedPoint].type)],
                         "Toggle Point Type"),
               "Point type changed")
    ELSE toast(s, "Please select a point first")

toggleSelectedPointStar(s) ==
    IF s.selectedPoint # 0
    THEN toast(saveState([s EXCEPT !.heap[s.selectedPoint].starred =
                                       ~s.heap[s.selectedPoint].starred],
                         "Toggle Star"),
               "Point starred or unstarred")
    ELSE toast(s, "Please select a point first")

\* one point of moveSelectedPointsToBaseline
snapPoint(p) ==
    LET dy == QSub(baselineY, p.y)
    IN  [p EXCEPT !.y = baselineY,
                  !.cp1.y = QAdd(p.cp1.y, dy),
                  !.cp2.y = QAdd(p.cp2.y, dy)]

moveSelectedPointsToBaseline(s) ==
    IF s.selectedPoints = {}
    THEN toast(s, "Please select at least one point")
    ELSE LET hit == {MapGet(s.points, k) : k \in s.selectedPoints} \ {0}
             s1 == [s EXCEPT !.heap = [j \in DOMAIN s.heap |->
                                         IF j \in hit THEN snapPoint(s.heap[j])
                                         ELSE s.heap[j]]]
         IN  toast(saveState(s1, "Move to Baseline"), "Points moved to baseline")

\* the toolbar's delete button
deleteButtonClick(s) ==
    IF s.selectedPoint # 0
    THEN updatePointList(deletePoint(s, s.selectedPoint), TRUE)
    ELSE toast(s, "Please select a point first")

---------------------------------------------------------------------------
(* The context menu.                                                       *)

distanceSq(ax, ay, bx, by) ==
    QAdd(QMul(QSub(bx, ax), QSub(bx, ax)), QMul(QSub(by, ay), QSub(by, ay)))

\* utils.findClosestPoint over points.values(), threshold 10: the scan keeps
\* the first point strictly closer than what it has
RECURSIVE closestFrom(_, _, _, _, _, _)
closestFrom(s, px, py, i, minDistSq, closest) ==
    IF i > Len(s.points) THEN closest
    ELSE LET p == s.heap[s.points[i].id]
             d == distanceSq(px, py, p.x, p.y)
         IN  IF QLt(d, minDistSq)
             THEN closestFrom(s, px, py, i + 1, d, s.points[i].id)
             ELSE closestFrom(s, px, py, i + 1, minDistSq, closest)

findClosestPoint(s, px, py) == closestFrom(s, px, py, 1, I(10 * 10), 0)

handleContextMenu(s, px, py) ==
    LET point == findClosestPoint(s, px, py)
    IN  [s EXCEPT !.menu = [open |-> TRUE, point |-> point]]

closeMenu(s) == [s EXCEPT !.menu = NoMenu]

menuAddPoint(s) == closeMenu(addPoint(s))
menuDeletePoint(s) == closeMenu(deletePoint(s, s.menu.point))
menuTogglePointType(s) == closeMenu(togglePointType(s, s.menu.point))
\* the Star / Unstar item: the flag is flipped and the canvas redrawn
menuStar(s) ==
    closeMenu([s EXCEPT !.heap[s.menu.point].starred = ~s.heap[s.menu.point].starred])

---------------------------------------------------------------------------
(* The items of the point list (UI.updatePointList).                       *)

\* a click on an item: onPointSelect(point); a list built without the
\* callback throws, and nothing changes
listItemClick(s, i) ==
    IF s.listCallback THEN selectPoint(s, s.list[i]) ELSE s

\* the name input's change event
listRename(s, i, name) == [s EXCEPT !.heap[s.list[i]].name = name]

\* the item's delete button
listDelete(s, i) ==
    IF Len(s.points) > 2
    THEN toast(updatePointList(
                   [s EXCEPT !.points = MapDelete(s.points, s.heap[s.list[i]].name)],
                   s.listCallback),
               "Point deleted")
    ELSE toast(s, "Cannot delete: minimum 2 points required")

---------------------------------------------------------------------------
(* Loading an author-space file (loadSavedWave: input.onchange and         *)
(* reader.onload).  A file is [parses, hasPoints, points].                 *)

RECURSIVE loadPoints(_, _, _)
loadPoints(s, data, i) ==
    IF i > Len(data) THEN s
    ELSE LET d == data[i]
             a == Alloc(s, [Point(d.x, d.y, d.name, d.color, d.type)
                              EXCEPT !.cp1 = d.cp1, !.cp2 = d.cp2,
                                     !.starred = d.starred])
         IN  loadPoints([a.st EXCEPT !.points = MapSet(a.st.points, d.name, a.id)],
                        data, i + 1)

loadSavedWave(s, file) ==
    IF ~file.parses THEN toast(s, "Error loading wave file")
    ELSE LET cleared == [s EXCEPT !.points = <<>>]
         IN  IF ~file.hasPoints THEN toast(cleared, "Error loading wave file")
             ELSE toast(loadPoints(cleared, file.points, 1), "Wave loaded from file")

---------------------------------------------------------------------------
(* saveWave: the author-space file, as JSON.stringify writes it and        *)
(* JSON.parse reads it back.                                               *)

\* null where a number was: JSON.stringify writes NaN and the infinities so
JsonNull == <<0, -1>>

jsonNumber(q) == IF q[2] = 0 THEN JsonNull ELSE q

jsonHandle(cp) == [x |-> jsonNumber(cp.x), y |-> jsonNumber(cp.y)]

\* the file saveWave hands to the download
saveWaveFile(s) ==
    [parses |-> TRUE, hasPoints |-> TRUE,
     points |-> [i \in 1..Len(s.points) |->
                   LET point == s.heap[s.points[i].id]
                   IN  [x |-> jsonNumber(point.x), y |-> jsonNumber(point.y),
                        name |-> point.name, color |-> point.color,
                        type |-> point.type, starred |-> point.starred,
                        cp1 |-> jsonHandle(point.cp1),
                        cp2 |-> jsonHandle(point.cp2)]]]

saveWave(s) == toast([s EXCEPT !.exported = <<saveWaveFile(s)>>], "Wave saved to file")

---------------------------------------------------------------------------
(* Drawing: the segments stroked by Canvas.drawCurve (with no highlight)   *)
(* and by drawWaveSegment, each as [from, to, curved].                     *)

valuesOf(s) == [i \in 1..Len(s.points) |-> s.heap[s.points[i].id]]

\* for (i = 1; i < pointArray.length; i++): prevPoint, currentPoint
drawCurve(s) ==
    IF Len(s.points) < 2 THEN <<>>
    ELSE LET pointArray == valuesOf(s)
         IN  [i \in 1..(Len(pointArray) - 1) |->
                [from |-> pointArray[i], to |-> pointArray[i + 1],
                 curved |-> pointArray[i + 1].type = "smooth"
                            /\ pointArray[i].type = "smooth"]]

\* for (i = 0; i < points.length - 1; i++): current, next; drawPreviewWave
\* calls it with two points or more
drawWaveSegment(s) ==
    LET pts == valuesOf(s)
    IN  [i \in 1..(Len(pts) - 1) |->
           [from |-> pts[i], to |-> pts[i + 1],
            curved |-> pts[i + 1].type = "smooth" /\ pts[i].type = "smooth"]]

\* Math.ceil; an infinity or NaN is returned as it is
MathCeil(q) == IF q[2] = 0 THEN q ELSE I(-((-q[1]) \div q[2]))

Infinity == <<1, 0>>

\* drawPreviewWave: whether the loop `for (i = 0; i < copies; i++)` ends, and
\* the number of calls of drawWaveSegment it makes when it does.  With
\* waveWidth 0 the quotient is Infinity and `i < copies` holds for every i.
drawPreviewWave(s) ==
    IF Len(s.points) < 2 THEN [returns |-> TRUE, drawn |-> 0]
    ELSE LET pts == valuesOf(s)
             waveWidth == QSub(pts[Len(pts)].x, pts[1].x)
             copies == QAdd(MathCeil(QDiv(I(CanvasWidth), waveWidth)), I(1))
         IN  IF copies = Infinity THEN [returns |-> FALSE, drawn |-> 0]
             ELSE IF QLt(I(0), copies) THEN [returns |-> TRUE, drawn |-> copies[1]]
             ELSE [returns |-> TRUE, drawn |-> 0]

---------------------------------------------------------------------------
(* Export of the normalized curve (exportForMonitor and the listener of    *)
(* the export button).                                                     *)

\* Array.prototype.sort by a.x - b.x, which is stable
RECURSIVE insertByX(_, _)
insertByX(sorted, p) ==
    IF sorted = <<>> THEN <<p>>
    ELSE IF QLt(p.x, Head(sorted).x) THEN <<p>> \o sorted
    ELSE <<Head(sorted)>> \o insertByX(Tail(sorted), p)

RECURSIVE sortByX(_)
sortByX(ps) ==
    IF ps = <<>> THEN <<>>
    ELSE insertByX(sortByX(SubSeq(ps, 1, Len(ps) - 1)), ps[Len(ps)])

normalizeHandle(cp, startX, width) ==
    [x |-> QDiv(QSub(cp.x, startX), width),
     y |-> QDiv(QSub(baselineY, cp.y), QDiv(I(CanvasHeight), I(4)))]

\* exportForMonitor without `.sort((a, b) => a.x - b.x)`
exportForMonitor_unsorted(s) ==
    LET sorted == [i \in 1..Len(s.points) |-> s.heap[s.points[i].id]]
        startX == sorted[1].x
        endX == sorted[Len(sorted)].x
        width == QSub(endX, startX)
    IN  [points |-> [i \in 1..Len(sorted) |->
                       [x |-> QDiv(QSub(sorted[i].x, startX), width),
                        y |-> QDiv(QSub(baselineY, sorted[i].y),
                                   QDiv(I(CanvasHeight), I(4))),
                        type |-> sorted[i].type,
                        cp1 |-> normalizeHandle(sorted[i].cp1, startX, width),
                        cp2 |-> normalizeHandle(sorted[i].cp2, startX, width)]],
         metadata |-> [originalWidth |-> width,
                       originalHeight |-> I(CanvasHeight),
                       baselineRatio |-> QDiv(baselineY, I(CanvasHeight)),
                       originalBaseline |-> baselineY]]

\* the value exportForMonitor returns, for a Map that holds a point
exportForMonitor(s) ==
    LET sorted == sortByX([i \in 1..Len(s.points) |-> s.heap[s.points[i].id]])
        startX == sorted[1].x
        endX == sorted[Len(sorted)].x
        width == QSub(endX, startX)
    IN  [points |-> [i \in 1..Len(sorted) |->
                       [x |-> QDiv(QSub(sorted[i].x, startX), width),
                        y |-> QDiv(QSub(baselineY, sorted[i].y),
                                   QDiv(I(CanvasHeight), I(4))),
                        type |-> sorted[i].type,
                        cp1 |-> normalizeHandle(sorted[i].cp1, startX, width),
                        cp2 |-> normalizeHandle(sorted[i].cp2, startX, width)]],
         metadata |-> [originalWidth |-> width,
                       originalHeight |-> I(CanvasHeight),
                       baselineRatio |-> QDiv(baselineY, I(CanvasHeight)),
                       originalBaseline |-> baselineY]]

\* the export button: with an empty Map points[0].x throws and nothing is
\* downloaded
exportButtonClick(s) ==
    IF s.points = <<>> THEN s
    ELSE toast([s EXCEPT !.exported = <<exportForMonitor(s)>>],
               "Waveform exported for monitor")

---------------------------------------------------------------------------
(* The view transform.                                                     *)

worldToScreen(s, x, y) ==
    [x |-> QMul(QSub(x, s.panX), s.zoomLevel),
     y |-> QMul(QSub(y, s.panY), s.zoomLevel)]

screenToWorld(s, x, y) ==
    [x |-> QAdd(QDiv(x, s.zoomLevel), s.panX),
     y |-> QAdd(QDiv(y, s.zoomLevel), s.panY)]

\* Math.sqrt(dx^2 + dy^2) <= 5 between a screen position and a world position
hit(s, screenX, screenY, wx, wy) ==
    LET p == worldToScreen(s, wx, wy)
    IN  QLe(distanceSq(screenX, screenY, p.x, p.y), I(5 * 5))

---------------------------------------------------------------------------
(* Mouse gestures.                                                         *)

RECURSIVE sumOver(_, _, _)
sumOver(starts, keys, axis) ==
    IF keys = {} THEN I(0)
    ELSE LET k == CHOOSE k \in keys : TRUE
         IN  QAdd(starts[k][axis], sumOver(starts, keys \ {k}, axis))

\* mouse-down in transform mode: the gesture-start snapshot and its centroid
startTransform(s, screenX, screenY) ==
    LET keys == {k \in s.selectedPoints : MapHas(s.points, k)}
        starts == [k \in keys |->
                     LET p == s.heap[MapGet(s.points, k)]
                     IN  [x |-> p.x, y |-> p.y, cp1 |-> p.cp1, cp2 |-> p.cp2]]
        count == I(Cardinality(keys))
    IN  [s EXCEPT !.transformStartPoints = starts,
                  !.transformOrigin = [x |-> QDiv(sumOver(starts, keys, "x"), count),
                                       y |-> QDiv(sumOver(starts, keys, "y"), count)],
                  !.lastMouseX = screenX,
                  !.lastMouseY = screenY]

\* a mouse-down on a point that always makes it the only selected point
clickPoint_alwaysReplaces(s, i, shiftKey) ==
    [s EXCEPT !.selectedPoints = {s.points[i].key},
              !.selectedPoint = s.points[i].id,
              !.draggingPoint = s.points[i].id]

\* mouse-down on the point of Map entry i
clickPoint(s, i, shiftKey) ==
    LET id == s.points[i].id
        key == s.points[i].key
        s1 == IF shiftKey
              THEN IF key \in s.selectedPoints
                   THEN [s EXCEPT !.selectedPoints = s.selectedPoints \ {key},
                                  !.selectedPoint = IF s.selectedPoint = id THEN 0
                                                    ELSE s.selectedPoint]
                   ELSE [s EXCEPT !.selectedPoints = s.selectedPoints \cup {key},
                                  !.selectedPoint = id]
              ELSE [s EXCEPT !.selectedPoints = IF key \in s.selectedPoints
                                                THEN s.selectedPoints ELSE {key},
                             !.selectedPoint = id]
    IN  [s1 EXCEPT !.draggingPoint = id]

handleMouseDown(s, screenX, screenY, shiftKey) ==
    IF s.isPreviewMode THEN s
    ELSE IF s.isTransforming THEN startTransform(s, screenX, screenY)
    ELSE IF s.isSpacePressed
         THEN [s EXCEPT !.isPanning = TRUE, !.lastMouseX = screenX,
                        !.lastMouseY = screenY]
    ELSE LET w == screenToWorld(s, screenX, screenY)
             sel == s.heap[s.selectedPoint]
             onPoints == {i \in 1..Len(s.points) :
                            hit(s, screenX, screenY, s.heap[s.points[i].id].x,
                                s.heap[s.points[i].id].y)}
         IN  IF s.selectedPoint # 0 /\ hit(s, screenX, screenY, sel.cp1.x, sel.cp1.y)
             THEN [s EXCEPT !.draggingControlPoint =
                                [point |-> s.selectedPoint, handle |-> "cp1"]]
             ELSE IF s.selectedPoint # 0
                     /\ hit(s, screenX, screenY, sel.cp2.x, sel.cp2.y)
             THEN [s EXCEPT !.draggingControlPoint =
                                [point |-> s.selectedPoint, handle |-> "cp2"]]
             ELSE LET s1 ==
                        IF onPoints # {}
                        THEN clickPoint(s, CHOOSE i \in onPoints :
                                               \A j \in onPoints : i <= j, shiftKey)
                        ELSE IF ~s.isPanning
                        THEN [s EXCEPT !.selectedPoints =
                                           IF shiftKey THEN s.selectedPoints ELSE {},
                                       !.selectedPoint =
                                           IF shiftKey THEN s.selectedPoint ELSE 0,
                                       !.isBoxSelecting = TRUE,
                                       !.boxStartX = w.x,
                                       !.boxStartY = w.y]
                        ELSE s
                  IN  [s1 EXCEPT !.lastMouseX = screenX, !.lastMouseY = screenY]

\* a tick that scales the point where it is now, not where it was at the
\* start of the gesture
scalePoint_fromCurrent(p, start, origin, scaleX, scaleY) ==
    [p EXCEPT !.x = QAdd(origin.x, QMul(QSub(p.x, origin.x), scaleX)),
              !.y = QAdd(origin.y, QMul(QSub(p.y, origin.y), scaleY)),
              !.cp1 = [x |-> QAdd(origin.x, QMul(QSub(p.cp1.x, origin.x), scaleX)),
                       y |-> QAdd(origin.y, QMul(QSub(p.cp1.y, origin.y), scaleY))],
              !.cp2 = [x |-> QAdd(origin.x, QMul(QSub(p.cp2.x, origin.x), scaleX)),
                       y |-> QAdd(origin.y, QMul(QSub(p.cp2.y, origin.y), scaleY))]]

\* one tick of the transform-scale gesture, on one point
scalePoint(p, start, origin, scaleX, scaleY) ==
    [p EXCEPT !.x = QAdd(origin.x, QMul(QSub(start.x, origin.x), scaleX)),
              !.y = QAdd(origin.y, QMul(QSub(start.y, origin.y), scaleY)),
              !.cp1 = [x |-> QAdd(origin.x, QMul(QSub(start.cp1.x, origin.x), scaleX)),
                       y |-> QAdd(origin.y, QMul(QSub(start.cp1.y, origin.y), scaleY))],
              !.cp2 = [x |-> QAdd(origin.x, QMul(QSub(start.cp2.x, origin.x), scaleX)),
                       y |-> QAdd(origin.y, QMul(QSub(start.cp2.y, origin.y), scaleY))]]

\* one tick of a point-drag, on one point
translatePoint(p, dx, dy) ==
    [p EXCEPT !.x = QAdd(p.x, dx), !.y = QAdd(p.y, dy),
              !.cp1 = [x |-> QAdd(p.cp1.x, dx), y |-> QAdd(p.cp1.y, dy)],
              !.cp2 = [x |-> QAdd(p.cp2.x, dx), y |-> QAdd(p.cp2.y, dy)]]

\* the key under which the Map holds object j
keyOf(s, j) == s.points[CHOOSE i \in 1..Len(s.points) : s.points[i].id = j].key

handleMouseMove(s, screenX, screenY, shiftKey) ==
    IF s.isPreviewMode THEN s
    ELSE IF s.isTransforming /\ DOMAIN s.transformStartPoints # {}
    THEN LET dx == QSub(screenX, s.lastMouseX)
             dy == QSub(screenY, s.lastMouseY)
             scaleX == IF shiftKey THEN I(1) ELSE QAdd(I(1), QDiv(dx, I(100)))
             scaleY == QAdd(I(1), QDiv(dy, I(100)))
             moved == {MapGet(s.points, k) : k \in DOMAIN s.transformStartPoints} \ {0}
         IN  [s EXCEPT !.heap = [j \in DOMAIN s.heap |->
                 IF j \in moved
                 THEN scalePoint(s.heap[j], s.transformStartPoints[keyOf(s, j)],
                                 s.transformOrigin, scaleX, scaleY)
                 ELSE s.heap[j]]]
    ELSE IF s.isPanning /\ s.isSpacePressed
    THEN [s EXCEPT !.panX = QSub(s.panX, QDiv(QSub(screenX, s.lastMouseX), s.zoomLevel)),
                   !.panY = QSub(s.panY, QDiv(QSub(screenY, s.lastMouseY), s.zoomLevel)),
                   !.lastMouseX = screenX,
                   !.lastMouseY = screenY]
    ELSE IF s.isBoxSelecting
    THEN s    \* the box is drawn over a selection that is put back
    ELSE LET w == screenToWorld(s, screenX, screenY)
         IN  IF s.draggingControlPoint.point # 0
             THEN [s EXCEPT !.heap[s.draggingControlPoint.point]
                                 [s.draggingControlPoint.handle] = [x |-> w.x, y |-> w.y]]
             ELSE IF s.draggingPoint # 0
             THEN LET last == screenToWorld(s, s.lastMouseX, s.lastMouseY)
                      dx == QSub(w.x, last.x)
                      dy == QSub(w.y, last.y)
                      moved == {MapGet(s.points, k) : k \in s.selectedPoints} \ {0}
                  IN  updatePointList(
                          [s EXCEPT !.heap = [j \in DOMAIN s.heap |->
                                                IF j \in moved
                                                THEN translatePoint(s.heap[j], dx, dy)
                                                ELSE s.heap[j]],
                                    !.lastMouseX = screenX,
                                    !.lastMouseY = screenY],
                          FALSE)
             ELSE s

\* the end of a box-select: the start corner is the stored world position,
\* the end corner the event's screen position
endBoxSelect(s, screenX, screenY, shiftKey) ==
    LET left == QMin(s.boxStartX, screenX)
        right == QMax(s.boxStartX, screenX)
        top == QMin(s.boxStartY, screenY)
        bottom == QMax(s.boxStartY, screenY)
        inside == {i \in 1..Len(s.points) :
                     LET p == s.heap[s.points[i].id]
                         sp == worldToScreen(s, p.x, p.y)
                     IN  QGe(sp.x, left) /\ QLe(sp.x, right)
                         /\ QGe(sp.y, top) /\ QLe(sp.y, bottom)}
        lastIn == CHOOSE i \in inside : \A j \in inside : j <= i
    IN  [s EXCEPT !.selectedPoints =
                      (IF shiftKey THEN s.selectedPoints ELSE {})
                          \cup {s.points[i].key : i \in inside},
                  !.selectedPoint = IF inside = {} THEN s.selectedPoint
                                    ELSE s.points[lastIn].id,
                  !.isBoxSelecting = FALSE]

\* mouseup, and mouseleave, which calls the same handler
handleMouseUp(s, screenX, screenY, shiftKey) ==
    IF s.isPreviewMode THEN s
    ELSE LET s1 == [s EXCEPT !.isPanning = FALSE]
             s2 == IF s1.isBoxSelecting
                   THEN endBoxSelect(s1, screenX, screenY, shiftKey) ELSE s1
         IN  IF s2.isTransforming /\ DOMAIN s2.transformStartPoints # {}
             THEN saveState([s2 EXCEPT !.transformStartPoints = <<>>],
                            "Transform Points")
             ELSE IF s2.draggingPoint # 0 \/ s2.draggingControlPoint.point # 0
             THEN saveState([s2 EXCEPT !.draggingPoint = 0,
                                       !.draggingControlPoint = NoHandle],
                            "Move points")
             ELSE s2

---------------------------------------------------------------------------
(* Keys.                                                                   *)

\* toggleTransformMode without the test of `this.selectedPoints.size < 2`
toggleTransformMode_unguarded(s) ==
    IF ~s.isTransforming
    THEN toast([s EXCEPT !.isTransforming = TRUE], "Transform mode")
    ELSE [s EXCEPT !.isTransforming = FALSE, !.transformStartPoints = <<>>]

toggleTransformMode(s) ==
    IF Cardinality(s.selectedPoints) < 2
    THEN toast(s, "Select at least 2 points to transform")
    ELSE IF ~s.isTransforming
    THEN toast([s EXCEPT !.isTransforming = TRUE], "Transform mode")
    ELSE [s EXCEPT !.isTransforming = FALSE, !.transformStartPoints = <<>>]

togglePreviewMode(s) ==
    IF ~s.isPreviewMode
    THEN toast([s EXCEPT !.isPreviewMode = TRUE], "Preview Mode Enabled")
    ELSE toast([s EXCEPT !.isPreviewMode = FALSE], "Preview Mode Disabled")

\* handleKeyUp, for Space; no listener calls it
handleKeyUp(s, code) ==
    IF code = "Space"
    THEN [s EXCEPT !.isSpacePressed = FALSE, !.isPanning = FALSE]
    ELSE s

\* handleKeyDown, for Escape and for Space
handleKeyDown(s, key) ==
    IF key = "Escape"
    THEN [s EXCEPT !.selectedPoints = {}, !.selectedPoint = 0,
                   !.isBoxSelecting = FALSE]
    ELSE IF key = "Space" THEN [s EXCEPT !.isSpacePressed = TRUE]
    ELSE s

---------------------------------------------------------------------------
(* Zoom.  The factors 0.9 and 1.1 and the limits 0.1 and 10 are kept as    *)
(* exact fractions.                                                        *)

minZoom == <<1, 10>>
maxZoom == <<10, 1>>

handleWheel(s, mouseX, mouseY, deltaY) ==
    IF s.isPreviewMode THEN s
    ELSE LET worldPosBeforeZoom == screenToWorld(s, mouseX, mouseY)
             zoomFactor == IF deltaY > 0 THEN <<9, 10>> ELSE <<11, 10>>
             s1 == [s EXCEPT !.zoomLevel =
                        QMin(QMax(QMul(s.zoomLevel, zoomFactor), minZoom), maxZoom)]
             worldPosAfterZoom == screenToWorld(s1, mouseX, mouseY)
         IN  [s1 EXCEPT !.panX = QAdd(s.panX, QSub(worldPosAfterZoom.x,
                                                   worldPosBeforeZoom.x)),
                        !.panY = QAdd(s.panY, QSub(worldPosAfterZoom.y,
                                                   worldPosBeforeZoom.y))]

---------------------------------------------------------------------------
(* The playback renderer of the tidal-volume trace (WaveformRenderer with  *)
(* type 'vte').  A waveform is [points, metadata]; a point of it is        *)
(* [x, y, type, cp1, cp2]; a property the file does not give is a field    *)
(* the record does not have.                                               *)

Null == [null |-> TRUE]
Has(object, property) == property \in DOMAIN object
\* what a call gives: the number it returns, or the TypeError it throws
Returns(value) == [threw |-> FALSE, value |-> value]
TypeError == [threw |-> TRUE]
NoSample == [time |-> NaN]

RendererHeight == 150
displayGain == 840

\* q % 1
fractionOf(q) ==
    IF q[2] = 0 THEN NaN
    ELSE IF q[1] >= 0 THEN Norm(q[1] % q[2], q[2])
    ELSE Norm(-((-q[1]) % q[2]), q[2])

cycleTimeOf(time) == fractionOf(QDiv(QMul(time, I(12)), I(60)))

cubicInterpolation(p0, p1, p2, p3, t) ==
    LET t2 == QMul(t, t)
        t3 == QMul(t2, t)
    IN  QAdd(QAdd(QAdd(QMul(QSub(I(1), t3), p0),
                       QMul(QMul(QMul(I(3), QSub(I(1), t2)), t), p1)),
                  QMul(QMul(QMul(I(3), QSub(I(1), t)), t2), p2)),
             QMul(t3, p3))

\* the scan with >= in the place of >
bracketOf_atOrAfter(pts, cycleTime) ==
    LET n == Len(pts)
        after == {i \in 1..(n - 1) : QGe(pts[i + 1].x, cycleTime)}
    IN  IF after # {}
        THEN LET i == CHOOSE i \in after : \A j \in after : i <= j
             IN  [found |-> TRUE, start |-> i - 1, end |-> i,
                  t |-> QDiv(QSub(cycleTime, pts[i].x),
                             QSub(pts[i + 1].x, pts[i].x))]
        ELSE [found |-> FALSE, start |-> n - 1, end |-> 0,
              t |-> QDiv(QSub(cycleTime, pts[n].x),
                         QAdd(QSub(I(1), pts[n].x), pts[1].x))]

\* the scan without the `if (!found)` block: past the last point the
\* bracket stays (points[0], points[1])
bracketOf_noWrap(pts, cycleTime) ==
    LET n == Len(pts)
        after == {i \in 1..(n - 1) : QGt(pts[i + 1].x, cycleTime)}
        i == IF after # {} THEN CHOOSE i \in after : \A j \in after : i <= j
             ELSE 1
    IN  IF n < 2
        THEN [found |-> FALSE, start |-> 0, end |-> 0, t |-> cycleTime]
        ELSE [found |-> after # {}, start |-> i - 1, end |-> i,
              t |-> QDiv(QSub(cycleTime, pts[i].x),
                         QSub(pts[i + 1].x, pts[i].x))]

\* the scan for the bracket of cycleTime; indices are the source's (from 0)
bracketOf(pts, cycleTime) ==
    LET n == Len(pts)
        after == {i \in 1..(n - 1) : QGt(pts[i + 1].x, cycleTime)}
    IN  IF after # {}
        THEN LET i == CHOOSE i \in after : \A j \in after : i <= j
             IN  [found |-> TRUE, start |-> i - 1, end |-> i,
                  t |-> QDiv(QSub(cycleTime, pts[i].x),
                             QSub(pts[i + 1].x, pts[i].x))]
        ELSE [found |-> FALSE, start |-> n - 1, end |-> 0,
              t |-> QDiv(QSub(cycleTime, pts[n].x),
                         QAdd(QSub(I(1), pts[n].x), pts[1].x))]

\* the built-in trace, used while no custom waveform is installed
defaultVte(cycleTime) ==
    IF QLt(cycleTime, <<3, 10>>)
    THEN LET u == QDiv(cycleTime, <<3, 10>>) IN Returns(QMul(I(40), QMul(u, u)))
    ELSE \* 40 * Math.pow(v, 0.5), kept as the square of what is returned
         [threw |-> FALSE,
          valueSquared |-> QMul(I(40 * 40),
                                QSub(I(1), QDiv(QSub(cycleTime, <<3, 10>>),
                                                <<7, 10>>)))]

generateDataPoint(waveform, time) ==
    LET cycleTime == cycleTimeOf(time)
    IN  IF waveform = Null THEN defaultVte(cycleTime)
        ELSE IF ~Has(waveform, "points") THEN TypeError
        ELSE IF waveform.points = <<>> THEN TypeError
        ELSE LET b == bracketOf(waveform.points, cycleTime)
                 startPoint == waveform.points[b.start + 1]
                 endPoint == waveform.points[b.end + 1]
             IN  IF startPoint.type = "smooth" /\ endPoint.type = "smooth"
                 THEN IF \/ ~Has(startPoint, "cp2") \/ ~Has(endPoint, "cp1")
                         \/ startPoint.cp2 = Null \/ endPoint.cp1 = Null
                      THEN TypeError
                      ELSE Returns(QMul(cubicInterpolation(
                                            startPoint.y, startPoint.cp2.y,
                                            endPoint.cp1.y, endPoint.y, b.t),
                                        I(displayGain)))
                 ELSE Returns(QMul(QAdd(startPoint.y,
                                        QMul(b.t, QSub(endPoint.y, startPoint.y))),
                                   I(displayGain)))

\* setCustomWaveform: the assignment comes first, the read of metadata after
setCustomWaveform(r, waveformData) ==
    LET r1 == [r EXCEPT !.customWaveform = waveformData]
    IN  IF waveformData = Null THEN [r1 EXCEPT !.threw = TRUE]
        ELSE IF Has(waveformData, "metadata")
                /\ waveformData.metadata # Null
                /\ Has(waveformData.metadata, "baselineRatio")
        THEN [r1 EXCEPT !.baselineY = QMul(I(RendererHeight),
                                           waveformData.metadata.baselineRatio)]
        ELSE r1

\* reader.onload of loadCustomWaveform; a file is [parses, data]
loadCustomWaveform(r, file) ==
    IF ~file.parses THEN [r EXCEPT !.status = "Error loading waveform file"]
    ELSE LET r1 == setCustomWaveform(r, file.data)
         IN  IF r1.threw THEN [r1 EXCEPT !.status = "Error loading waveform file"]
             ELSE [r1 EXCEPT !.status = "Custom waveform loaded successfully"]

---------------------------------------------------------------------------
(* Applying a handler: the variables take the values it leaves.  Object    *)
(* identities are renumbered (the Map's points first, in Map order), which *)
(* changes no reference's target.                                          *)

RECURSIVE sortedIds(_)
sortedIds(S) ==
    IF S = {} THEN <<>>
    ELSE LET m == CHOOSE x \in S : \A y \in S : x <= y
         IN  <<m>> \o sortedIds(S \ {m})

Renumbering(s) ==
    LET live == [i \in 1..Len(s.points) |-> s.points[i].id]
        order == live \o sortedIds(InUse(s) \ SeqRange(live))
    IN  [id \in InUse(s) \cup {0} |->
           IF id = 0 THEN 0 ELSE CHOOSE i \in 1..Len(order) : order[i] = id]

PointSet(s) == SeqRange(LivePointData(s))

NoProbe == [base |-> {}, final |-> {}, n |-> 0, u |-> 0, r |-> 0]

\* the observer of undo and redo: `n` committed edits since the point set
\* `base`, the last of which left the point set `final`, then `u` calls of
\* undo, then `r` calls of redo
ProbeStep(op, pre, post) ==
    IF post.commits >= 1
    THEN IF probe.n >= 1 /\ probe.u = 0
         THEN [probe EXCEPT !.n = probe.n + 1, !.final = PointSet(post)]
         ELSE [base |-> PointSet(pre), final |-> PointSet(post),
               n |-> 1, u |-> 0, r |-> 0]
    ELSE IF op = "undo" /\ probe.n >= 1 /\ probe.u < probe.n /\ probe.r = 0
         THEN [probe EXCEPT !.u = probe.u + 1]
    ELSE IF op = "redo" /\ probe.n >= 1 /\ probe.u = probe.n /\ probe.r < probe.n
         THEN [probe EXCEPT !.r = probe.r + 1]
    ELSE NoProbe

\* what preview is to leave alone: points, selection, gesture flags, view
\* and history
Editing(s) ==
    [points |-> LivePointData(s),
     selectedPoints |-> s.selectedPoints,
     selectedPoint |-> IF s.selectedPoint = 0 THEN <<>>
                       ELSE <<PointData(s.heap[s.selectedPoint])>>,
     draggingPoint |-> s.draggingPoint # 0,
     draggingControlPoint |-> s.draggingControlPoint.handle,
     isBoxSelecting |-> s.isBoxSelecting,
     isPanning |-> s.isPanning,
     isTransforming |-> s.isTransforming,
     zoomLevel |-> s.zoomLevel, panX |-> s.panX, panY |-> s.panY,
     history |-> s.history, currentHistoryIndex |-> s.currentHistoryIndex]

NoEntry == [points |-> "(not in preview)"]
NoPosition == [x |-> NaN, y |-> NaN]

Begin(ok) == [State EXCEPT !.storageOk = ok]

\* a handle object is one object: what a handler wrote into it through the
\* live Point is what the snapshot that holds it reads
writtenThrough(s) ==
    IF s.shared = {} THEN s.history
    ELSE [e \in 1..Len(s.history) |->
            [s.history[e] EXCEPT !.points =
                [j \in 1..Len(s.history[e].points) |->
                    LET held(h) == {l \in s.shared :
                                      /\ l.entry = e /\ l.at = j /\ l.handle = h
                                      /\ l.id \in DOMAIN s.heap}
                        owner(h) == (CHOOSE l \in held(h) : TRUE).id
                    IN  [s.history[e].points[j] EXCEPT
                           !.cp1 = IF held("cp1") = {} THEN @
                                   ELSE s.heap[owner("cp1")].cp1,
                           !.cp2 = IF held("cp2") = {} THEN @
                                   ELSE s.heap[owner("cp2")].cp2]]]]

Dispatch(op, at, result) ==
  \E s \in {result} :
    LET r == Renumbering(s)
    IN  /\ steps' = steps + 1
        /\ heap' = [j \in {r[id] : id \in InUse(s)} |->
                      s.heap[CHOOSE id \in InUse(s) : r[id] = j]]
        /\ points' = [i \in 1..Len(s.points) |->
                        [key |-> s.points[i].key, id |-> r[s.points[i].id]]]
        /\ selectedPoint' = r[s.selectedPoint]
        /\ selectedPoints' = s.selectedPoints
        /\ draggingPoint' = r[s.draggingPoint]
        /\ draggingControlPoint' =
               [s.draggingControlPoint EXCEPT !.point = r[s.draggingControlPoint.point]]
        /\ isBoxSelecting' = s.isBoxSelecting
        /\ boxStartX' = s.boxStartX
        /\ boxStartY' = s.boxStartY
        /\ lastMouseX' = s.lastMouseX
        /\ lastMouseY' = s.lastMouseY
        /\ isTransforming' = s.isTransforming
        /\ transformStartPoints' = s.transformStartPoints
        /\ transformOrigin' = s.transformOrigin
        /\ history' = writtenThrough(s)
        /\ shared' = {[l EXCEPT !.id = r[l.id]] :
                         l \in {m \in s.shared : m.id \in InUse(s)}}
        /\ currentHistoryIndex' = s.currentHistoryIndex
        /\ zoomLevel' = s.zoomLevel
        /\ panX' = s.panX
        /\ panY' = s.panY
        /\ isPanning' = s.isPanning
        /\ isSpacePressed' = s.isSpacePressed
        /\ isPreviewMode' = s.isPreviewMode
        /\ storage' = s.storage
        /\ list' = [i \in 1..Len(s.list) |-> r[s.list[i]]]
        /\ listCallback' = s.listCallback
        /\ menu' = [s.menu EXCEPT !.point = r[s.menu.point]]
        /\ lastOp' = [op |-> op, at |-> at, commits |-> s.commits,
                      dropped |-> s.dropped, evicted |-> s.evicted,
                      advisory |-> s.advisory, exported |-> s.exported,
                      storageOk |-> s.storageOk]
        /\ UNCHANGED <<customWaveform, rendererBaselineY, sampled>>
        /\ probe' = ProbeStep(op, State, s)
        /\ tickDirty' = IF s.commits >= 1 THEN FALSE
                        ELSE IF op = "handleMouseMove"
                                /\ LivePointData(s) # LivePointData(State)
                        THEN TRUE
                        ELSE tickDirty
        /\ previewEntry' = IF s.isPreviewMode /\ ~isPreviewMode THEN Editing(s)
                           ELSE IF isPreviewMode THEN previewEntry
                           ELSE NoEntry

Apply(op, result) == Dispatch(op, NoPosition, result)

---------------------------------------------------------------------------
(* Construction.  The constructor restores the session that localStorage   *)
(* holds; with none, and the document focused, loadSavedWave opens the     *)
(* file dialog and returns true, so no base wave is set up.                *)

Cp(x, y) == [x |-> I(x), y |-> I(y)]

ThreePointSession ==
      [points |-> << [x |-> I(50), y |-> I(100), name |-> "Start",
                      color |-> "#ff0000", type |-> "smooth", starred |-> FALSE,
                      cp1 |-> Cp(50, 100), cp2 |-> Cp(100, 100)],
                     [x |-> I(200), y |-> I(80), name |-> "P",
                      color |-> "#ff0000", type |-> "smooth", starred |-> FALSE,
                      cp1 |-> Cp(150, 80), cp2 |-> Cp(250, 80)],
                     [x |-> I(350), y |-> I(100), name |-> "End",
                      color |-> "#ff0000", type |-> "sharp", starred |-> FALSE,
                      cp1 |-> Cp(325, 100), cp2 |-> Cp(350, 100)] >>,
       actionName |-> "Move points"]

TwoPointSession ==
      [points |-> << [x |-> I(50), y |-> I(100), name |-> "Start",
                      color |-> "#ff0000", type |-> "sharp", starred |-> FALSE,
                      cp1 |-> Cp(50, 100), cp2 |-> Cp(100, 100)],
                     [x |-> I(350), y |-> I(100), name |-> "End",
                      color |-> "#ff0000", type |-> "sharp", starred |-> TRUE,
                      cp1 |-> Cp(300, 100), cp2 |-> Cp(350, 100)] >>,
       actionName |-> "Delete Point"]

StoredSessions == {ThreePointSession, TwoPointSession}

Fields ==
    [heap |-> << >>, points |-> <<>>, selectedPoint |-> 0, selectedPoints |-> {},
     draggingPoint |-> 0, draggingControlPoint |-> NoHandle,
     isBoxSelecting |-> FALSE, boxStartX |-> I(0), boxStartY |-> I(0),
     lastMouseX |-> I(0), lastMouseY |-> I(0), isTransforming |-> FALSE,
     transformStartPoints |-> <<>>, transformOrigin |-> [x |-> I(0), y |-> I(0)],
     history |-> <<>>, currentHistoryIndex |-> -1, zoomLevel |-> I(1),
     panX |-> I(0), panY |-> I(0), isPanning |-> FALSE,
     isSpacePressed |-> FALSE, isPreviewMode |-> FALSE, storage |-> Absent,
     list |-> <<>>, listCallback |-> FALSE, menu |-> NoMenu, shared |-> {},
     commits |-> 0, dropped |-> 0, evicted |-> 0, advisory |-> "",
     exported |-> <<>>, storageOk |-> TRUE]

loadFromLocalStorage(s) ==
    IF s.storage \in {Absent, Corrupt} THEN s
    ELSE toast(restoreState(s, s.storage), "Restored previous session")

Constructed(stored) == loadFromLocalStorage([Fields EXCEPT !.storage = stored])

\* the 13 points of setupBaseWave: name, x, y and type
baseWave ==
    LET startX == I(50)
        totalWidth == QSub(I(CanvasWidth), I(100))
        at(percent) == QAdd(startX, QMul(totalWidth, <<percent, 100>>))
        up(dy) == QSub(baselineY, I(dy))
        p(x, y, name, type) == [x |-> x, y |-> y, name |-> name, type |-> type]
    IN  << p(startX, baselineY, "Start", "smooth"),
           p(at(15), baselineY, "P-start", "smooth"),
           p(at(20), up(20), "P", "smooth"),
           p(at(25), baselineY, "P-end", "smooth"),
           p(at(30), baselineY, "Q-start", "sharp"),
           p(at(32), up(-30), "Q", "sharp"),
           p(at(35), up(100), "R", "sharp"),
           p(at(38), up(-40), "S", "sharp"),
           p(at(45), baselineY, "ST", "sharp"),
           p(at(60), baselineY, "T-start", "smooth"),
           p(at(65), up(30), "T", "smooth"),
           p(at(70), baselineY, "T-end", "smooth"),
           p(QSub(I(CanvasWidth), I(50)), baselineY, "End", "smooth") >>

\* the handle of `point` towards `other`: at a third of the way between two
\* smooth points, at a sixth otherwise
baseHandle(point, other) ==
    LET part == IF point.type = "smooth" /\ other.type = "smooth" THEN I(3) ELSE I(6)
    IN  [x |-> QAdd(point.x, QDiv(QSub(other.x, point.x), part)),
         y |-> QAdd(point.y, QDiv(QSub(other.y, point.y), part))]

setupBaseWave(s) ==
    LET n == Len(baseWave)
        data == [i \in 1..n |->
                   [Point(baseWave[i].x, baseWave[i].y, baseWave[i].name,
                          "#ff0000", baseWave[i].type)
                      EXCEPT !.cp1 = IF i = 1 THEN @
                                     ELSE baseHandle(baseWave[i], baseWave[i - 1]),
                             !.cp2 = IF i = n THEN @
                                     ELSE baseHandle(baseWave[i], baseWave[i + 1])]]
    IN  loadPoints([s EXCEPT !.points = <<>>], data, 1)

\* the constructor's fallback chain; loadSavedWave() clicks the file input
\* and returns true when the document has focus
constructor(stored, hasFocus) ==
    LET s == [Fields EXCEPT !.storage = stored]
    IN  IF stored \notin {Absent, Corrupt} THEN loadFromLocalStorage(s)
        ELSE IF hasFocus THEN s
        ELSE setupBaseWave(s)

EditorAfterEvent(op, at, s) ==
    /\ heap = s.heap
    /\ points = s.points
    /\ selectedPoint = s.selectedPoint
    /\ selectedPoints = s.selectedPoints
    /\ draggingPoint = s.draggingPoint
    /\ draggingControlPoint = s.draggingControlPoint
    /\ isBoxSelecting = s.isBoxSelecting
    /\ boxStartX = s.boxStartX
    /\ boxStartY = s.boxStartY
    /\ lastMouseX = s.lastMouseX
    /\ lastMouseY = s.lastMouseY
    /\ isTransforming = s.isTransforming
    /\ transformStartPoints = s.transformStartPoints
    /\ transformOrigin = s.transformOrigin
    /\ history = s.history
    /\ currentHistoryIndex = s.currentHistoryIndex
    /\ zoomLevel = s.zoomLevel
    /\ panX = s.panX
    /\ panY = s.panY
    /\ isPanning = s.isPanning
    /\ isSpacePressed = s.isSpacePressed
    /\ isPreviewMode = s.isPreviewMode
    /\ storage = s.storage
    /\ list = s.list
    /\ listCallback = s.listCallback
    /\ menu = s.menu
    /\ shared = s.shared
    /\ lastOp = [op |-> op, at |-> at, commits |-> 0, dropped |-> 0,
                 evicted |-> 0, advisory |-> s.advisory, exported |-> <<>>,
                 storageOk |-> TRUE]
    /\ probe = NoProbe
    /\ tickDirty = FALSE
    /\ previewEntry = NoEntry
    /\ steps = 0

EditorAfter(op, s) == EditorAfterEvent(op, NoPosition, s)

\* the renderer as its constructor and resizeCanvas leave it
Renderer ==
    [customWaveform |-> Null,
     baselineY |-> QMul(I(RendererHeight), <<67, 100>>),
     status |-> "", threw |-> FALSE]

RendererAfter(r) ==
    /\ customWaveform = r.customWaveform
    /\ rendererBaselineY = r.baselineY
    /\ sampled = NoSample

StartAfter(op, s) == EditorAfter(op, s) /\ RendererAfter(Renderer)

Start(s) == StartAfter("constructor", s)

Init == \E stored \in StoredSessions \cup {Absent} : Start(Constructed(stored))

---------------------------------------------------------------------------
(* The editing operations of the toolbar, the keyboard, the context menu   *)
(* and the point list.                                                     *)

ThreePoints == (CHOOSE f \in StoredSessions : Len(f.points) = 3).points

Files ==
    { [parses |-> FALSE, hasPoints |-> FALSE, points |-> <<>>],
      [parses |-> TRUE, hasPoints |-> FALSE, points |-> <<>>],
      [parses |-> TRUE, hasPoints |-> TRUE, points |-> <<>>],
      [parses |-> TRUE, hasPoints |-> TRUE, points |-> SubSeq(ThreePoints, 1, 1)],
      [parses |-> TRUE, hasPoints |-> TRUE, points |-> ThreePoints] }

NewNames == {"Start", "Q"}

\* where the context menu is opened: on two points of the stored sessions,
\* and on empty canvas
ContextPositions == {<<I(50), I(100)>>, <<I(350), I(100)>>, <<I(0), I(0)>>}

AddButton == Apply("addPoint", addPoint(Begin(TRUE)))
DeleteButton == Apply("deleteButton", deleteButtonClick(Begin(TRUE)))
ToggleTypeButton == Apply("toggleSelectedPointType", toggleSelectedPointType(Begin(TRUE)))
ToggleStarButton == Apply("toggleSelectedPointStar", toggleSelectedPointStar(Begin(TRUE)))
UndoKey == Apply("undo", undo(Begin(TRUE)))
RedoKey == Apply("redo", redo(Begin(TRUE)))
LoadFile ==
    \E f \in Files : Dispatch("loadSavedWave", f, loadSavedWave(Begin(TRUE), f))
ContextMenu ==
    \E pos \in ContextPositions :
        Apply("handleContextMenu", handleContextMenu(Begin(TRUE), pos[1], pos[2]))
MenuAddPoint ==
    /\ menu.open
    /\ Apply("menuAddPoint", menuAddPoint(Begin(TRUE)))
MenuDeletePoint ==
    /\ menu.open /\ menu.point # 0
    /\ Apply("menuDeletePoint", menuDeletePoint(Begin(TRUE)))
MenuTogglePointType ==
    /\ menu.open /\ menu.point # 0
    /\ Apply("menuTogglePointType", menuTogglePointType(Begin(TRUE)))
MenuStar ==
    /\ menu.open /\ menu.point # 0
    /\ Apply("menuStar", menuStar(Begin(TRUE)))
MenuClose ==
    /\ menu.open
    /\ Apply("closeMenu", closeMenu(Begin(TRUE)))
ListItemClick == \E i \in 1..Len(list) : Apply("listItemClick", listItemClick(Begin(TRUE), i))
ListRename ==
    \E i \in 1..Len(list), name \in NewNames :
        Apply("listRename", listRename(Begin(TRUE), i, name))
ListDelete == \E i \in 1..Len(list) : Apply("listDelete", listDelete(Begin(TRUE), i))

\* the history: committed edits, an uncommitted one, undo and redo
NextHistory ==
    /\ steps < MaxSteps
    /\ (\/ AddButton \/ DeleteButton \/ ToggleTypeButton \/ ToggleStarButton
        \/ UndoKey \/ RedoKey \/ ListItemClick \/ ContextMenu \/ MenuStar)

Spec == Init /\ [][NextHistory]_vars

\* the curve store: every way a point enters or leaves the point set
NextCurve ==
    /\ steps < MaxCurveSteps
    /\ \/ AddButton \/ DeleteButton \/ UndoKey \/ LoadFile
       \/ ContextMenu \/ MenuDeletePoint
       \/ ListItemClick \/ ListRename \/ ListDelete

SpecCurve == Init /\ [][NextCurve]_vars

---------------------------------------------------------------------------
(* Gestures and keys, on the restored three-point session.  The editor is  *)
(* taken as constructed, after a box-select from the canvas corner over    *)
(* its first two points, and after a following 't'.                        *)

boxSelected(s) ==
    handleMouseUp(handleMouseDown(s, I(0), I(0), FALSE), I(250), I(150), FALSE)

InitGesture ==
    \/ Start(Constructed(ThreePointSession))
    \/ StartAfter("handleMouseUp", boxSelected(Constructed(ThreePointSession)))
    \/ StartAfter("toggleTransformMode",
                  toggleTransformMode(boxSelected(Constructed(ThreePointSession))))

\* on the point Start, on the handle cp1 of P, on empty canvas
MousePositions == {[x |-> I(50), y |-> I(100)], [x |-> I(150), y |-> I(80)],
                   [x |-> I(250), y |-> I(150)]}

MouseDown ==
    \E at \in MousePositions, shiftKey \in BOOLEAN :
        Dispatch("handleMouseDown", at,
                 handleMouseDown(Begin(TRUE), at.x, at.y, shiftKey))
MouseMove ==
    \E at \in MousePositions :
        Dispatch("handleMouseMove", at,
                 handleMouseMove(Begin(TRUE), at.x, at.y, FALSE))
\* mouseup or mouseleave
MouseUp ==
    \E at \in MousePositions :
        Dispatch("handleMouseUp", at, handleMouseUp(Begin(TRUE), at.x, at.y, FALSE))
KeyT == Apply("toggleTransformMode", toggleTransformMode(Begin(TRUE)))
KeyP == Apply("togglePreviewMode", togglePreviewMode(Begin(TRUE)))
KeyEscape == Apply("handleKeyDown", handleKeyDown(Begin(TRUE), "Escape"))
KeySpace == Apply("handleKeyDown", handleKeyDown(Begin(TRUE), "Space"))

NextGesture ==
    /\ steps < MaxGestureSteps
    /\ (MouseDown \/ MouseMove \/ MouseUp \/ KeyT \/ KeyP \/ KeyEscape
          \/ KeySpace)

SpecGesture == InitGesture /\ [][NextGesture]_vars

---------------------------------------------------------------------------
(* Wheel zoom.                                                             *)

WheelPositions == {[x |-> I(0), y |-> I(0)], [x |-> I(100), y |-> I(50)],
                   [x |-> I(200), y |-> I(100)]}

Wheel ==
    \E at \in WheelPositions, deltaY \in {-100, 100} :
        Dispatch("handleWheel", at, handleWheel(Begin(TRUE), at.x, at.y, deltaY))

NextZoom == steps < MaxZoomSteps /\ (Wheel \/ KeyP)

SpecZoom == Init /\ [][NextZoom]_vars

---------------------------------------------------------------------------
(* The renderer's steps leave the editor alone.                            *)

editorVars == <<heap, points, selectedPoint, selectedPoints, draggingPoint,
                draggingControlPoint, isBoxSelecting, boxStartX, boxStartY,
                lastMouseX, lastMouseY, isTransforming, transformStartPoints,
                transformOrigin, history, currentHistoryIndex, zoomLevel, panX,
                panY, isPanning, isSpacePressed, isPreviewMode, storage, list,
                listCallback, menu, shared, probe, tickDirty, previewEntry>>

RendererState ==
    [customWaveform |-> customWaveform, baselineY |-> rendererBaselineY,
     status |-> "", threw |-> FALSE]

Render(op, at, r, sample) ==
    /\ steps' = steps + 1
    /\ customWaveform' = r.customWaveform
    /\ rendererBaselineY' = r.baselineY
    /\ sampled' = sample
    /\ lastOp' = [op |-> op, at |-> at, commits |-> 0, dropped |-> 0,
                  evicted |-> 0, advisory |-> r.status, exported |-> <<>>,
                  storageOk |-> TRUE]
    /\ UNCHANGED editorVars

---------------------------------------------------------------------------
(* The sampler, on installed waveforms.                                    *)

Handle(x, y) == [x |-> x, y |-> y]

CurvePoint(x, y, type, cp1y, cp2y) ==
    [x |-> x, y |-> y, type |-> type, cp1 |-> Handle(x, cp1y),
     cp2 |-> Handle(x, cp2y)]

\* the three-point session after its point P was dragged to the x of Start
draggedAboveStart(s) ==
    handleMouseUp(handleMouseMove(handleMouseDown(s, I(200), I(80), FALSE),
                                  I(50), I(80), FALSE),
                  I(50), I(80), FALSE)

\* the export of the three-point session; a flat curve of two smooth points;
\* smooth points that end before the cycle does; sharp points with a repeated
\* x; a single point; a curve that starts after the cycle does; the export
\* of a curve with two points at its smallest x; a curve that ends higher
\* than it starts
SamplerCurves ==
    { exportForMonitor(Constructed(ThreePointSession)),
      exportForMonitor(draggedAboveStart(Constructed(ThreePointSession))),
      [points |-> << CurvePoint(I(0), I(0), "sharp", I(0), I(0)),
                     CurvePoint(<<1, 2>>, I(1), "sharp", I(1), I(1)),
                     CurvePoint(I(1), <<1, 2>>, "sharp", <<1, 2>>, <<1, 2>>) >>],
      [points |-> << CurvePoint(I(0), I(0), "smooth", I(0), I(0)),
                     CurvePoint(I(1), I(0), "smooth", I(0), I(0)) >>],
      [points |-> << CurvePoint(I(0), I(0), "smooth", I(0), <<1, 2>>),
                     CurvePoint(<<2, 5>>, I(1), "smooth", I(1), I(1)),
                     CurvePoint(<<4, 5>>, <<-1, 2>>, "smooth", I(0), <<-1, 2>>) >>],
      [points |-> << CurvePoint(I(0), I(0), "sharp", I(0), I(0)),
                     CurvePoint(<<1, 2>>, I(1), "sharp", I(1), I(1)),
                     CurvePoint(<<1, 2>>, <<1, 4>>, "sharp", I(0), I(0)),
                     CurvePoint(<<9, 10>>, I(0), "smooth", I(0), I(0)) >>],
      [points |-> << CurvePoint(I(0), <<1, 2>>, "smooth", <<1, 2>>, <<1, 2>>) >>],
      [points |-> << CurvePoint(<<1, 5>>, I(0), "sharp", I(0), I(0)),
                     CurvePoint(<<4, 5>>, I(1), "sharp", I(1), I(1)) >>] }

\* seconds since the monitor started: a quarter second apart, over more than
\* one cycle of five seconds
SampleTimes == {<<k, 4>> : k \in {0, 1, 2, 3, 5, 7, 8, 10, 13, 16, 18, 19, 20, 21, 37}}

InitSampler ==
    /\ EditorAfter("constructor", Constructed(ThreePointSession))
    /\ \E w \in SamplerCurves : RendererAfter(setCustomWaveform(Renderer, w))

Sample ==
    \E time \in SampleTimes :
        Render("generateDataPoint", NoPosition, RendererState,
               [time |-> time,
                cycleTime |-> cycleTimeOf(time),
                bracket |-> bracketOf(customWaveform.points, cycleTimeOf(time)),
                result |-> generateDataPoint(customWaveform, time)])

NextSampler == steps < MaxSamplerSteps /\ Sample

SpecSampler == InitSampler /\ [][NextSampler]_vars

---------------------------------------------------------------------------
(* Runs of commits, undos and redos, on points renamed in the point list.  *)

MaxUndoRedoSteps == 5

NextUndoRedo ==
    /\ steps < MaxUndoRedoSteps
    /\ (AddButton \/ UndoKey \/ RedoKey \/ ListRename)

SpecUndoRedo == Init /\ [][NextUndoRedo]_vars

---------------------------------------------------------------------------
(* A long session: the history near its capacity.                          *)

MaxEvictionSteps == 4

\* the commits made before the run starts, two short of maxHistorySize
PriorCommits == maxHistorySize - 2

\* the star button clicked k times
RECURSIVE starredTimes(_, _)
starredTimes(s, k) ==
    IF k = 0 THEN s ELSE starredTimes(toggleSelectedPointStar(s), k - 1)

InitEviction ==
    \E half \in {starredTimes(listItemClick(Constructed(ThreePointSession), 1),
                              PriorCommits \div 2)} :
        StartAfter("toggleSelectedPointStar",
                   starredTimes(half, PriorCommits - PriorCommits \div 2))

NextEviction ==
    /\ steps < MaxEvictionSteps
    /\ (\/ AddButton \/ DeleteButton \/ ToggleTypeButton \/ ToggleStarButton
        \/ UndoKey \/ RedoKey)

SpecEviction == InitEviction /\ [][NextEviction]_vars

---------------------------------------------------------------------------
(* Live edits of points that undo or redo restored.  The session has two   *)
(* commits (the point P retyped, then starred); the last one is undone,    *)
(* and then P is clicked, or two points are box-selected for a transform.  *)

MaxSnapshotSteps == 3

twoCommits ==
    toggleSelectedPointStar(
        toggleSelectedPointType(listItemClick(Constructed(ThreePointSession), 2)))

InitSnapshots ==
    \E s \in {undo(twoCommits)} :
        \/ StartAfter("toggleSelectedPointStar", twoCommits)
        \/ StartAfter("undo", s)
        \/ StartAfter("handleMouseUp",
                      handleMouseUp(handleMouseDown(s, I(200), I(80), FALSE),
                                    I(200), I(80), FALSE))
        \/ StartAfter("toggleTransformMode", toggleTransformMode(boxSelected(s)))

MoveToBaselineButton ==
    Apply("moveSelectedPointsToBaseline", moveSelectedPointsToBaseline(Begin(TRUE)))

NextSnapshots ==
    /\ steps < MaxSnapshotSteps
    /\ (\/ MouseDown \/ MouseMove \/ MouseUp \/ KeyT
        \/ MoveToBaselineButton \/ ToggleTypeButton \/ ToggleStarButton
        \/ UndoKey \/ RedoKey)

SpecSnapshots == InitSnapshots /\ [][NextSnapshots]_vars

---------------------------------------------------------------------------
(* Edits while localStorage refuses to store (its quota is exceeded).      *)

MaxStorageSteps == 4

\* the toolbar's committing buttons, with localStorage.setItem throwing
StorageFull ==
    \/ Apply("addPoint", addPoint(Begin(FALSE)))
    \/ Apply("deleteButton", deleteButtonClick(Begin(FALSE)))
    \/ Apply("toggleSelectedPointStar", toggleSelectedPointStar(Begin(FALSE)))

NextStorage ==
    /\ steps < MaxStorageSteps
    /\ (\/ StorageFull \/ AddButton \/ DeleteButton \/ ToggleStarButton
        \/ ListItemClick \/ UndoKey \/ RedoKey)

SpecStorage == Init /\ [][NextStorage]_vars

---------------------------------------------------------------------------
(* Startup: what localStorage holds, whether the document has focus, and   *)
(* what the user does with the file dialog the constructor opened.         *)

MaxStartupSteps == 2

InitStartup ==
    /\ \E stored \in StoredSessions \cup {Absent, Corrupt}, hasFocus \in BOOLEAN :
          EditorAfterEvent("constructor", [stored |-> stored, hasFocus |-> hasFocus],
                           constructor(stored, hasFocus))
    /\ RendererAfter(Renderer)

\* the file dialog of the constructor's loadSavedWave() is open
startupDialog ==
    /\ lastOp.op = "constructor"
    /\ lastOp.at.stored \in {Absent, Corrupt}
    /\ lastOp.at.hasFocus

\* the dialog is dismissed: input.onchange does not fire
CancelFileDialog ==
    /\ startupDialog
    /\ Dispatch("fileDialogCancel", lastOp.at, Begin(TRUE))

NextStartup ==
    /\ steps < MaxStartupSteps
    /\ (\/ CancelFileDialog \/ LoadFile \/ AddButton \/ ListItemClick
        \/ DeleteButton)

SpecStartup == InitStartup /\ [][NextStartup]_vars

---------------------------------------------------------------------------
(* Exchange of curves: the editor's export button and file load, and the   *)
(* monitor's load of a custom waveform.                                    *)

MaxExchangeSteps == 3

\* the point End of the two-point session, dragged onto Start
draggedOntoStart(s) ==
    handleMouseUp(handleMouseMove(handleMouseDown(s, I(350), I(100), FALSE),
                                  I(50), I(100), FALSE),
                  I(50), I(100), FALSE)

\* a curve of two points for the monitor, the second one smooth or sharp and
\* without cp1
withoutCp1(type) ==
    [points |-> << CurvePoint(I(0), I(0), "smooth", I(0), <<1, 2>>),
                   [x |-> I(1), y |-> I(1), type |-> type,
                    cp2 |-> Handle(I(1), I(1))] >>]

\* the files picked in the monitor: not JSON; the JSON text null; an object
\* without points; curves with a point that has no cp1; an export
WaveformFiles ==
    { [parses |-> FALSE, data |-> Null],
      [parses |-> TRUE, data |-> Null],
      [parses |-> TRUE, data |-> [metadata |-> [baselineRatio |-> <<1, 2>>]]],
      [parses |-> TRUE, data |-> withoutCp1("smooth")],
      [parses |-> TRUE, data |-> withoutCp1("sharp")],
      [parses |-> TRUE, data |-> exportForMonitor(Constructed(ThreePointSession))] }

InitExchange ==
    /\ \/ EditorAfter("constructor", Constructed(ThreePointSession))
       \/ EditorAfter("handleMouseUp", draggedOntoStart(Constructed(TwoPointSession)))
    /\ \/ RendererAfter(Renderer)
       \/ RendererAfter(setCustomWaveform(
              Renderer, exportForMonitor(Constructed(TwoPointSession))))

ExportButton == Apply("exportButtonClick", exportButtonClick(Begin(TRUE)))

LoadCustomWaveform ==
    \E file \in WaveformFiles :
        Render("loadCustomWaveform", file, loadCustomWaveform(RendererState, file),
               sampled)

NextExchange ==
    /\ steps < MaxExchangeSteps
    /\ (ExportButton \/ LoadFile \/ LoadCustomWaveform)

SpecExchange == InitExchange /\ [][NextExchange]_vars

---------------------------------------------------------------------------
(* Saving the curve and loading the saved file back, and the export for    *)
(* the monitor, on edited curves.                                          *)

MaxRoundTripSteps == 3

SaveWaveButton == Apply("saveWave", saveWave(Begin(TRUE)))

\* Load Wave, with the file Save Wave has just written
LoadSavedBack ==
    /\ lastOp.op = "saveWave"
    /\ Dispatch("loadSavedWave", lastOp.exported[1],
                loadSavedWave(Begin(TRUE), lastOp.exported[1]))

NextRoundTrip ==
    /\ steps < MaxRoundTripSteps
    /\ (\/ SaveWaveButton \/ LoadSavedBack \/ ExportButton \/ AddButton
        \/ ListItemClick \/ ToggleStarButton \/ ToggleTypeButton \/ ListRename)

SpecRoundTrip == Init /\ [][NextRoundTrip]_vars

---------------------------------------------------------------------------
(* Adding points to curves whose points were renamed, in the point list,   *)
(* to names of the form that generateUniquePointName produces.             *)

MaxAddPointSteps == 3

GeneratedNames == {PointName(3), PointName(4)}

ListRenameAsGenerated ==
    \E i \in 1..Len(list), name \in GeneratedNames :
        Apply("listRename", listRename(Begin(TRUE), i, name))

NextAddPoint ==
    /\ steps < MaxAddPointSteps
    /\ (\/ AddButton \/ ListItemClick \/ DeleteButton \/ UndoKey
        \/ ListRenameAsGenerated)

SpecAddPoint == Init /\ [][NextAddPoint]_vars

---------------------------------------------------------------------------
(* Adding points next to a selected point, on the restored three-point     *)
(* session and on that session with its points dragged apart.              *)

MaxPlacementSteps == 3

\* a point-drag: mouse-down on a point, one mouse-move, mouse-up
dragged(s, from, to) ==
    handleMouseUp(handleMouseMove(handleMouseDown(s, from.x, from.y, FALSE),
                                  to.x, to.y, FALSE),
                  to.x, to.y, FALSE)

\* End dragged from x = 350 to x = 390, then P from x = 200 to x = 260
stretched(s) ==
    dragged(dragged(s, [x |-> I(350), y |-> I(100)], [x |-> I(390), y |-> I(100)]),
            [x |-> I(200), y |-> I(80)], [x |-> I(260), y |-> I(80)])

\* P dragged from x = 200 to x = 250
shifted(s) == dragged(s, [x |-> I(200), y |-> I(80)], [x |-> I(250), y |-> I(80)])

InitPlacement ==
    \/ Start(Constructed(ThreePointSession))
    \/ StartAfter("handleMouseUp", stretched(Constructed(ThreePointSession)))
    \/ StartAfter("handleMouseUp", shifted(Constructed(ThreePointSession)))

NextPlacement ==
    /\ steps < MaxPlacementSteps
    /\ (AddButton \/ ListItemClick \/ DeleteButton \/ UndoKey)

SpecPlacement == InitPlacement /\ [][NextPlacement]_vars

---------------------------------------------------------------------------
(* Box-select gestures on a zoomed view of the restored three-point        *)
(* session.                                                                *)

MaxBoxSteps == 3

\* corners of the box, on empty canvas at every zoom level reached
BoxCorners == {[x |-> I(0), y |-> I(0)], [x |-> I(60), y |-> I(120)],
               [x |-> I(250), y |-> I(150)]}

BoxMouseDown ==
    \E at \in BoxCorners, shiftKey \in BOOLEAN :
        Dispatch("handleMouseDown", [x |-> at.x, y |-> at.y, shiftKey |-> shiftKey],
                 handleMouseDown(Begin(TRUE), at.x, at.y, shiftKey))

BoxMouseMove ==
    \E at \in BoxCorners :
        Dispatch("handleMouseMove", [x |-> at.x, y |-> at.y, shiftKey |-> FALSE],
                 handleMouseMove(Begin(TRUE), at.x, at.y, FALSE))

BoxMouseUp ==
    \E at \in BoxCorners, shiftKey \in BOOLEAN :
        Dispatch("handleMouseUp", [x |-> at.x, y |-> at.y, shiftKey |-> shiftKey],
                 handleMouseUp(Begin(TRUE), at.x, at.y, shiftKey))

NextBoxSelect ==
    /\ steps < MaxBoxSteps
    /\ (Wheel \/ BoxMouseDown \/ BoxMouseMove \/ BoxMouseUp)

SpecBoxSelect == Start(Constructed(ThreePointSession)) /\ [][NextBoxSelect]_vars

---------------------------------------------------------------------------
(* Selection by clicks on the canvas, and the operations on the selected   *)
(* point, on the restored three-point session, as constructed and after a  *)
(* box-select over its first two points.                                   *)

MaxSelectionSteps == 3

\* on the point Start, on the point P, on empty canvas
ClickPositions == {[x |-> I(50), y |-> I(100)], [x |-> I(200), y |-> I(80)],
                   [x |-> I(250), y |-> I(150)]}

CanvasMouseDown ==
    \E at \in ClickPositions, shiftKey \in BOOLEAN :
        Dispatch("handleMouseDown", [x |-> at.x, y |-> at.y, shiftKey |-> shiftKey],
                 handleMouseDown(Begin(TRUE), at.x, at.y, shiftKey))

CanvasMouseMove ==
    \E at \in ClickPositions :
        Dispatch("handleMouseMove", [x |-> at.x, y |-> at.y, shiftKey |-> FALSE],
                 handleMouseMove(Begin(TRUE), at.x, at.y, FALSE))

CanvasMouseUp ==
    \E at \in ClickPositions :
        Dispatch("handleMouseUp", [x |-> at.x, y |-> at.y, shiftKey |-> FALSE],
                 handleMouseUp(Begin(TRUE), at.x, at.y, FALSE))

NextSelection ==
    /\ steps < MaxSelectionSteps
    /\ (\/ CanvasMouseDown \/ CanvasMouseMove \/ CanvasMouseUp \/ DeleteButton
        \/ UndoKey \/ ToggleTypeButton \/ KeyT \/ KeyEscape)

InitSelection ==
    \/ Start(Constructed(ThreePointSession))
    \/ StartAfter("handleMouseUp", boxSelected(Constructed(ThreePointSession)))

SpecSelection == InitSelection /\ [][NextSelection]_vars

---------------------------------------------------------------------------
(* Panning with the space key held.  setupEventListeners registers         *)
(* listeners for keydown (on window and on document) and for no other key  *)
(* event: a keyup event reaches no handler of the editor.                  *)

MaxPanSteps == 3

\* the handlers that setupEventListeners registers for an event type
listenersFor(type) ==
    IF type = "keydown" THEN {"handleKeyDown"} ELSE {}

SpaceKeyDown ==
    Apply("keydown",
          IF "handleKeyDown" \in listenersFor("keydown")
          THEN handleKeyDown(Begin(TRUE), "Space") ELSE Begin(TRUE))

SpaceKeyUp ==
    Apply("keyup",
          IF "handleKeyUp" \in listenersFor("keyup")
          THEN handleKeyUp(Begin(TRUE), "Space") ELSE Begin(TRUE))

NextPan ==
    /\ steps < MaxPanSteps
    /\ (SpaceKeyDown \/ SpaceKeyUp \/ CanvasMouseDown \/ CanvasMouseMove
          \/ CanvasMouseUp)

SpecPan == Start(Constructed(ThreePointSession)) /\ [][NextPan]_vars

---------------------------------------------------------------------------
(* The preview animation.  togglePreviewMode starts it with a first call   *)
(* of animate, and every animation frame calls animate again while the     *)
(* mode is on; animate calls drawPreviewWave.  A call that does not return *)
(* has no next state.  The points are dragged between the x of Start, the  *)
(* x of End and a place to the right of End.                               *)

MaxPreviewSteps == 3

PreviewPositions == {[x |-> I(50), y |-> I(100)], [x |-> I(350), y |-> I(100)],
                     [x |-> I(390), y |-> I(100)]}

PreviewMouseDown ==
    \E at \in PreviewPositions :
        Dispatch("handleMouseDown", [x |-> at.x, y |-> at.y, shiftKey |-> FALSE],
                 handleMouseDown(Begin(TRUE), at.x, at.y, FALSE))

PreviewMouseMove ==
    \E at \in PreviewPositions :
        Dispatch("handleMouseMove", [x |-> at.x, y |-> at.y, shiftKey |-> FALSE],
                 handleMouseMove(Begin(TRUE), at.x, at.y, FALSE))

PreviewMouseUp ==
    \E at \in PreviewPositions :
        Dispatch("handleMouseUp", [x |-> at.x, y |-> at.y, shiftKey |-> FALSE],
                 handleMouseUp(Begin(TRUE), at.x, at.y, FALSE))

PreviewKey ==
    LET s == togglePreviewMode(Begin(TRUE))
    IN  /\ s.isPreviewMode => drawPreviewWave(s).returns
        /\ Apply("togglePreviewMode", s)

AnimationFrame ==
    /\ isPreviewMode
    /\ drawPreviewWave(State).returns
    /\ Apply("animate", Begin(TRUE))

InitPreview ==
    \/ Start(Constructed(ThreePointSession))
    \/ StartAfter("handleMouseUp",
                  dragged(Constructed(ThreePointSession),
                          [x |-> I(50), y |-> I(100)], [x |-> I(390), y |-> I(100)]))

NextPreview ==
    /\ steps < MaxPreviewSteps
    /\ (PreviewMouseDown \/ PreviewMouseMove \/ PreviewMouseUp \/ PreviewKey
          \/ AnimationFrame \/ UndoKey)

SpecPreview == InitPreview /\ [][NextPreview]_vars

---------------------------------------------------------------------------
(* Properties of the history and of the curve store.                       *)

NoGesture ==
    /\ draggingPoint = 0
    /\ draggingControlPoint.point = 0
    /\ ~isBoxSelecting
    /\ ~isPanning
    /\ transformStartPoints = <<>>

\* C1: after N >= 1 committed edits, N successive calls of undo leave the
\* live point set equal to the point set before the first of those edits.
C1_UndoReturnsToPreEditState ==
    (probe.n >= 1 /\ probe.u = probe.n /\ probe.r = 0) => PointSet(State) = probe.base

\* C2: undo at the first history entry (or with no entry) and redo at the
\* last are no-ops: the point set, the history, the index and the persisted
\* snapshot stay as they are.
C2_UndoRedoAtEndsAreNoOps ==
    [][(\/ lastOp'.op = "undo" /\ currentHistoryIndex <= 0
        \/ lastOp'.op = "redo" /\ currentHistoryIndex >= Len(history) - 1)
       => UNCHANGED <<heap, points, history, currentHistoryIndex, storage>>]_vars

C2_Witness ==
    /\ lastOp.op = "undo"
    /\ lastOp.advisory = "Nothing to undo"
    /\ currentHistoryIndex = 0
    /\ Len(history) = 1
    /\ PointSet(State) # SeqRange(history[1].points)

\* C3: a commit discards the history entries beyond the current index before
\* it appends, so after it the index designates the last entry and redo has
\* nothing to redo, however many undos came before.
C3_CommitDropsRedoTail ==
    [][lastOp'.commits >= 1
       => /\ currentHistoryIndex' = Len(history') - 1
          /\ currentHistoryIndex + 2 <= maxHistorySize
               => /\ Len(history') = currentHistoryIndex + 2
                  /\ SubSeq(history', 1, Len(history') - 1)
                       = SubSeq(history, 1, currentHistoryIndex + 1)
          /\ history'[Len(history')].points = LivePointData(State)']_vars

C3_Witness == lastOp.commits >= 1 /\ lastOp.dropped >= 1

\* C4: no delete operation (the toolbar's or the context menu's deletePoint,
\* the point list's delete button) takes a curve of at least two points
\* below two points.
C4_DeleteKeepsTwoPoints ==
    [][(lastOp'.op \in {"deleteButton", "menuDeletePoint", "listDelete"}
        /\ Len(points) >= 2)
       => Len(points') >= 2]_vars

C4_Witness ==
    /\ lastOp.op \in {"deleteButton", "menuDeletePoint", "listDelete"}
    /\ lastOp.advisory = "Cannot delete: minimum 2 points required"
    /\ Len(points) = 2

\* C5: once constructed, the editor holds at least two points in every
\* reachable state.
C5_AtLeastTwoPoints == Len(points) >= 2

\* C6: whenever no gesture is in progress and a commit has been made, the
\* live point set equals the snapshot at the current history index.
C6_LivePointsAreCommitted ==
    (NoGesture /\ currentHistoryIndex >= 0)
        => PointSet(State) = SeqRange(history[currentHistoryIndex + 1].points)

---------------------------------------------------------------------------
(* Properties of gestures, preview and zoom.                               *)

\* C7: a gesture that changes geometry (point-drag, handle-drag,
\* transform-scale) commits exactly one snapshot, at its end: once no such
\* gesture is in progress no mouse-move's change is left uncommitted, no
\* mouse-move commits, and no handler commits twice; whatever keys
\* (transform toggle, preview toggle, Escape) and mouse-leaves come between.
C7_GestureCommitsOnceAtItsEnd ==
    /\ (draggingPoint = 0 /\ draggingControlPoint.point = 0
          /\ transformStartPoints = <<>>) => ~tickDirty
    /\ lastOp.op = "handleMouseMove" => lastOp.commits = 0
    /\ lastOp.commits <= 1

\* C8: at most one of the gesture modes isBoxSelecting, draggingPoint,
\* draggingControlPoint, isPanning and isTransforming is active.
C8_OneGestureModeAtATime ==
    Cardinality({m \in {"isBoxSelecting", "draggingPoint", "draggingControlPoint",
                        "isPanning", "isTransforming"} :
                   \/ m = "isBoxSelecting" /\ isBoxSelecting
                   \/ m = "draggingPoint" /\ draggingPoint # 0
                   \/ m = "draggingControlPoint" /\ draggingControlPoint.point # 0
                   \/ m = "isPanning" /\ isPanning
                   \/ m = "isTransforming" /\ isTransforming}) <= 1

\* C9: when preview is left, the point set, the selection, the gesture
\* flags, the view transform and the history are what they were when
\* preview was entered, whatever events arrived in between.
C9_PreviewLeavesEditingStateAlone ==
    (lastOp.op = "togglePreviewMode" /\ ~isPreviewMode)
        => Editing(State) = previewEntry

\* C10: a wheel step at the screen position s leaves the world point that
\* was under s mapped to s by worldToScreen.
C10_ZoomKeepsCursorAnchor ==
    [][lastOp'.op = "handleWheel"
       => LET w == screenToWorld(State, lastOp'.at.x, lastOp'.at.y)
          IN  worldToScreen([zoomLevel |-> zoomLevel', panX |-> panX',
                             panY |-> panY'], w.x, w.y)
                = [x |-> lastOp'.at.x, y |-> lastOp'.at.y]]_vars

---------------------------------------------------------------------------
(* Properties of the sampler.                                              *)

bernstein(p0, p1, p2, p3, t) ==
    LET u == QSub(I(1), t)
    IN  QAdd(QAdd(QAdd(QMul(QMul(QMul(u, u), u), p0),
                       QMul(QMul(I(3), QMul(QMul(u, u), t)), p1)),
                  QMul(QMul(I(3), QMul(u, QMul(t, t))), p2)),
             QMul(QMul(QMul(t, t), t), p3))

\* C11: for a bracket of two smooth points the sampler returns (under the
\* display gain) the cubic Bezier blend of start.y, start.cp2.y, end.cp1.y
\* and end.y at t with the Bernstein weights (1-t)^3, 3(1-t)^2 t, 3(1-t) t^2
\* and t^3; for any other bracket it returns start.y + t * (end.y - start.y).
C11_SamplerBlendsByType ==
    (sampled # NoSample /\ ~sampled.result.threw)
        => LET startPoint == customWaveform.points[sampled.bracket.start + 1]
               endPoint == customWaveform.points[sampled.bracket.end + 1]
               t == sampled.bracket.t
           IN  sampled.result.value
                 = QMul(IF startPoint.type = "smooth" /\ endPoint.type = "smooth"
                        THEN bernstein(startPoint.y, startPoint.cp2.y,
                                       endPoint.cp1.y, endPoint.y, t)
                        ELSE QAdd(startPoint.y,
                                  QMul(t, QSub(endPoint.y, startPoint.y))),
                        I(displayGain))

\* a normalized curve: x ascending within [0, 1], from the cycle's start
IsNormalizedCurve(w) ==
    /\ w.points # <<>>
    /\ w.points[1].x = I(0)
    /\ \A i \in 1..Len(w.points) :
           /\ QGe(w.points[i].x, I(0)) /\ QLe(w.points[i].x, I(1))
           /\ i > 1 => QLe(w.points[i - 1].x, w.points[i].x)

\* C12: on a normalized curve and a phase in [0, 1) the bracket is (the
\* point before, the first point whose x exceeds the phase), or (the last
\* point, the first point) when no x exceeds the phase, and the bracket's
\* local parameter t lies in [0, 1).
C12_BracketAndLocalParameter ==
    (sampled # NoSample /\ IsNormalizedCurve(customWaveform))
        => LET pts == customWaveform.points
               phase == sampled.cycleTime
               beyond == {i \in 1..Len(pts) : QGt(pts[i].x, phase)}
               first == CHOOSE i \in beyond : \A j \in beyond : i <= j
               b == sampled.bracket
           IN  /\ QGe(phase, I(0)) /\ QLt(phase, I(1))
               /\ IF beyond # {}
                  THEN first >= 2 /\ pts[b.start + 1] = pts[first - 1]
                       /\ b.start + 1 = first - 1 /\ b.end + 1 = first
                  ELSE b.start + 1 = Len(pts) /\ b.end + 1 = 1
               /\ QGe(b.t, I(0)) /\ QLt(b.t, I(1))

\* in a later cycle, a phase past the last point of a curve that ends before
\* the cycle does
C12_Witness ==
    /\ sampled # NoSample
    /\ IsNormalizedCurve(customWaveform)
    /\ Len(customWaveform.points) >= 2
    /\ ~sampled.bracket.found
    /\ QGt(sampled.bracket.t, I(0))
    /\ QGe(sampled.time, I(5))

---------------------------------------------------------------------------
(* Properties of export and import.                                        *)

\* the x-span of the live points
spanOf(s) ==
    LET sorted == sortByX([i \in 1..Len(s.points) |-> s.heap[s.points[i].id]])
    IN  QSub(sorted[Len(sorted)].x, sorted[1].x)

\* C13: the export of a curve whose x-span is not positive is refused with
\* a validation error: no normalized curve is produced.
C13_DegenerateExportRefused ==
    (lastOp.op = "exportButtonClick" /\ points # <<>> /\ QLe(spanOf(State), I(0)))
        => (lastOp.exported = <<>> /\ lastOp.advisory # "Waveform exported for monitor")

\* files that the import has to refuse: malformed, or without a points array
malformed(file) ==
    \/ ~file.parses
    \/ IF Has(file, "hasPoints") THEN ~file.hasPoints
       ELSE file.data = Null \/ ~Has(file.data, "points")

\* C14: a failed import keeps the previous state: the editor's point set
\* is unchanged by a failed loadSavedWave, and the renderer's customWaveform
\* by a failed loadCustomWaveform.
C14_FailedImportKeepsState ==
    [][/\ (lastOp'.op = "loadSavedWave" /\ malformed(lastOp'.at))
            => LivePointData(State)' = LivePointData(State)
       /\ (lastOp'.op = "loadCustomWaveform" /\ malformed(lastOp'.at))
            => customWaveform' = customWaveform]_vars

lacksCp1(data) ==
    \E i \in 1..Len(data.points) :
        data.points[i].type = "smooth" /\ ~Has(data.points[i], "cp1")

\* C15: the import of a normalized curve with a smooth point that has no
\* cp1 is rejected and the curve is not installed.
C15_SmoothPointNeedsItsHandles ==
    (/\ lastOp.op = "loadCustomWaveform"
     /\ lastOp.at.parses
     /\ lastOp.at.data # Null
     /\ Has(lastOp.at.data, "points")
     /\ lacksCp1(lastOp.at.data))
        => (/\ customWaveform # lastOp.at.data
            /\ lastOp.advisory = "Error loading waveform file")

---------------------------------------------------------------------------
(* Properties of deletePoint and of the history (continued).               *)

\* the selected Point object, by its fields (the object may be out of the Map)
selectedData(s) ==
    IF s.selectedPoint = 0 THEN <<>> ELSE <<PointData(s.heap[s.selectedPoint])>>

\* C16: deletePoint called on a curve of exactly two points changes nothing:
\* the points, the primary and the multi selection, the history, its index
\* and the persisted snapshot stay as they were.
C16_RefusedDeleteChangesNothing ==
    [][(/\ Len(points) = 2
        /\ \/ lastOp'.op = "deleteButton" /\ selectedPoint # 0
           \/ lastOp'.op = "menuDeletePoint")
       => /\ LivePointData(State)' = LivePointData(State)
          /\ selectedData(State)' = selectedData(State)
          /\ selectedPoints' = selectedPoints
          /\ history' = history
          /\ currentHistoryIndex' = currentHistoryIndex
          /\ storage' = storage]_vars

\* a delete refused at two points, with a point selected and a commit made
C16_Witness ==
    /\ lastOp.op \in {"deleteButton", "menuDeletePoint"}
    /\ lastOp.advisory = "Cannot delete: minimum 2 points required"
    /\ Len(points) = 2
    /\ selectedPoint # 0
    /\ currentHistoryIndex >= 0

\* C17: after N >= 1 committed edits, N calls of undo and then N calls of
\* redo leave the live point set equal to the point set after the last of
\* those edits.
C17_RedoReturnsToLastEdit ==
    (probe.n >= 1 /\ probe.u = probe.n /\ probe.r = probe.n)
        => PointSet(State) = probe.final

\* C18: the history never holds more than maxHistorySize snapshots and the
\* index always satisfies -1 <= currentHistoryIndex <= history.length - 1;
\* a commit that would exceed the capacity evicts the oldest snapshot and
\* leaves the index on the snapshot just committed.
C18_HistoryIsBounded ==
    /\ [](/\ Len(history) <= maxHistorySize
          /\ -1 <= currentHistoryIndex
          /\ currentHistoryIndex <= Len(history) - 1)
    /\ [][(lastOp'.commits >= 1 /\ Len(history) = maxHistorySize
           /\ currentHistoryIndex = maxHistorySize - 1)
          => /\ lastOp'.evicted = 1
             /\ history' = Append(Tail(history), history'[Len(history')])
             /\ currentHistoryIndex' = Len(history') - 1
             /\ history'[currentHistoryIndex' + 1].points = LivePointData(State)']_vars

\* a commit on a full history has evicted the oldest snapshot
C18_Witness ==
    /\ lastOp.evicted = 1
    /\ Len(history) = maxHistorySize
    /\ currentHistoryIndex = maxHistorySize - 1
    /\ history[currentHistoryIndex + 1].points = LivePointData(State)

\* C19: a stored snapshot never changes: whatever a step does to the live
\* points (drag, handle drag, scale, baseline snap, retype, star; also on
\* points that undo or redo restored), every snapshot that stays in the
\* history is what it was, and a step that commits nothing leaves the
\* history as it was.
C19_SnapshotsNeverChange ==
    [][IF lastOp'.commits = 0 THEN history' = history
       ELSE LET first == IF lastOp'.evicted = 1 THEN 2 ELSE 1
                staying == SubSeq(history, first, currentHistoryIndex + 1)
            IN  SubSeq(history', 1, Len(staying)) = staying]_vars

\* a handle of a point that undo restored has been dragged away from the
\* snapshot it was restored from
C19_Witness ==
    /\ lastOp.op = "handleMouseMove"
    /\ currentHistoryIndex = 0
    /\ Len(history) = 2
    /\ \E i \in 1..Len(points) :
          /\ Len(history[1].points) >= i
          /\ history[1].points[i].name = heap[points[i].id].name
          /\ history[1].points[i].x = heap[points[i].id].x
          /\ history[1].points[i].cp1 # heap[points[i].id].cp1

\* what the handler leaves when localStorage stores
stored(op) ==
    CASE op = "addPoint" -> addPoint(State)
      [] op = "deleteButton" -> deleteButtonClick(State)
      [] op = "toggleSelectedPointStar" -> toggleSelectedPointStar(State)

\* C20: a commit whose write to localStorage fails goes on: the operation
\* completes and leaves the live points it leaves when the write succeeds,
\* the snapshot of these points is appended after the current entry, and
\* the index advances to it (the stored item stays what it was).
C20_StorageFailureIsNotFatal ==
    [][(lastOp'.commits >= 1 /\ ~lastOp'.storageOk)
       => /\ Len(history') = currentHistoryIndex + 2
          /\ currentHistoryIndex' = currentHistoryIndex + 1
          /\ history'[currentHistoryIndex' + 1].points = LivePointData(State)'
          /\ LivePointData(State)' = LivePointData(stored(lastOp'.op))
          /\ lastOp'.advisory \in {"Point added",
                                   "Canvas is getting crowded; Point added",
                                   "Point deleted", "Point starred or unstarred"}
          /\ storage' = storage]_vars

\* a commit after an undo, with the write failing: the history has the new
\* snapshot and localStorage an older one
C20_Witness ==
    /\ lastOp.commits >= 1
    /\ ~lastOp.storageOk
    /\ lastOp.dropped >= 1
    /\ storage # history[currentHistoryIndex + 1]
    /\ history[currentHistoryIndex + 1].points = LivePointData(State)

---------------------------------------------------------------------------
(* Properties of names, order and placement.                               *)

\* C21: the names of the points of the Map are pairwise distinct and each
\* point is stored under the key that is its current name, also after a
\* rename in the point list.
C21_NamesAreUniqueKeys ==
    /\ \A i \in 1..Len(points) : points[i].key = heap[points[i].id].name
    /\ \A i, j \in 1..Len(points) :
          heap[points[i].id].name = heap[points[j].id].name => i = j

\* the pairs of points a sequence of segments joins, whatever the direction
joined(segments) == {{segments[i].from, segments[i].to} : i \in 1..Len(segments)}

\* the consecutive pairs of the points in ascending x, as the export sorts
adjacentByX(s) ==
    LET sorted == sortByX(valuesOf(s))
    IN  {{sorted[i], sorted[i + 1]} : i \in 1..(Len(sorted) - 1)}

\* C22: the segments drawn by the editor (drawCurve) and by the preview
\* (drawWaveSegment) join the pairs of points that are consecutive in
\* ascending x, the pairs of the x-sorted export.
C22_SegmentsFollowXOrder ==
    Len(points) >= 2
        => /\ joined(drawCurve(State)) = adjacentByX(State)
           /\ joined(drawWaveSegment(State)) = adjacentByX(State)

\* C23: startup restores the stored session first; with no usable item in
\* localStorage and no file loaded (the document without focus, or the
\* file dialog dismissed) the points are those of the default generator:
\* startup ends with a curve.
C23_StartupEndsWithACurve ==
    LET default == LivePointData(setupBaseWave(Fields))
    IN  /\ (lastOp.op = "constructor" /\ lastOp.at.stored \in StoredSessions)
              => LivePointData(State) = lastOp.at.stored.points
        /\ (lastOp.op = "constructor" /\ lastOp.at.stored \notin StoredSessions
              /\ ~lastOp.at.hasFocus)
              => LivePointData(State) = default
        /\ lastOp.op = "fileDialogCancel" => LivePointData(State) = default

\* C24: loading the file that saveWave wrote gives back the points as they
\* were at saveWave: as many points, equal in x, y, name, color, type,
\* starred, cp1 and cp2.
C24_SaveAndLoadIsLossless ==
    [][(/\ lastOp.op = "saveWave"
        /\ lastOp'.op = "loadSavedWave"
        /\ lastOp'.at = lastOp.exported[1])
       => /\ Len(points') = Len(points)
          /\ LivePointData(State)' = LivePointData(State)]_vars

\* the live points, in Map order
livePoints(s) == [i \in 1..Len(s.points) |-> s.heap[s.points[i].id]]

\* the smallest and the largest x of the live points
firstX(s) ==
    LET ps == livePoints(s)
    IN  ps[CHOOSE i \in 1..Len(ps) : \A j \in 1..Len(ps) : QLe(ps[i].x, ps[j].x)].x

lastX(s) ==
    LET ps == livePoints(s)
    IN  ps[CHOOSE i \in 1..Len(ps) : \A j \in 1..Len(ps) : QGe(ps[i].x, ps[j].x)].x

\* (x - firstX) / span and (baselineY - y) / (canvasHeight / 4)
mappedX(s, x) == QDiv(QSub(x, firstX(s)), QSub(lastX(s), firstX(s)))

mappedY(y) == QDiv(QSub(baselineY, y), QDiv(I(CanvasHeight), I(4)))

mappedPoint(s, point) ==
    [x |-> mappedX(s, point.x), y |-> mappedY(point.y), type |-> point.type,
     cp1 |-> [x |-> mappedX(s, point.cp1.x), y |-> mappedY(point.cp1.y)],
     cp2 |-> [x |-> mappedX(s, point.cp2.x), y |-> mappedY(point.cp2.y)]]

\* as many of each value in one sequence as in the other
sameBag(a, b) ==
    /\ Len(a) = Len(b)
    /\ \A v \in {a[i] : i \in 1..Len(a)} \cup {b[i] : i \in 1..Len(b)} :
           Cardinality({i \in 1..Len(a) : a[i] = v})
               = Cardinality({i \in 1..Len(b) : b[i] = v})

\* C25: for a curve of positive x-span, exportForMonitor returns the points
\* in ascending x, each anchor and handle x mapped to (x - firstX) / span and
\* each y to (baselineY - y) / (canvasHeight / 4), so that the first x is 0,
\* the last is 1 and every anchor x is within [0, 1]; the editor's points
\* and their order are left as they were.
C25_ExportIsSortedAffineMap ==
    [][(/\ lastOp'.op = "exportButtonClick"
        /\ points # <<>>
        /\ QGt(QSub(lastX(State), firstX(State)), I(0)))
       => /\ Len(lastOp'.exported) = 1
          /\ LET out == lastOp'.exported[1].points
             IN  /\ \A i, j \in 1..Len(out) : i < j => QLe(out[i].x, out[j].x)
                 /\ out[1].x = I(0)
                 /\ out[Len(out)].x = I(1)
                 /\ \A i \in 1..Len(out) :
                        QGe(out[i].x, I(0)) /\ QLe(out[i].x, I(1))
                 /\ sameBag(out, [i \in 1..Len(points) |->
                                    mappedPoint(State, livePoints(State)[i])])
          /\ points' = points
          /\ LivePointData(State)' = LivePointData(State)]_vars

\* an export of a curve whose Map order is not the order of x
C25_Witness ==
    /\ lastOp.op = "exportButtonClick"
    /\ lastOp.exported # <<>>
    /\ QGt(QSub(lastX(State), firstX(State)), I(0))
    /\ \E i \in 1..(Len(points) - 1) :
           QGt(livePoints(State)[i].x, livePoints(State)[i + 1].x)
    /\ \E i \in 1..Len(points) : lastOp.exported[1].points[i].y # I(0)

\* a transform-scale gesture is under way: mouse-down in transform mode has
\* taken the snapshot of the selected points
scaling ==
    ~isPreviewMode /\ isTransforming /\ DOMAIN transformStartPoints # {}

\* origin + (start - origin) * scale, on both axes
scaledFrom(start, scaleX, scaleY) ==
    [x |-> QAdd(transformOrigin.x, QMul(QSub(start.x, transformOrigin.x), scaleX)),
     y |-> QAdd(transformOrigin.y, QMul(QSub(start.y, transformOrigin.y), scaleY))]

\* C26: every tick of a transform-scale gesture scales the snapshot taken
\* at the start of the gesture: after the tick each selected point and its
\* handles are where the snapshot, the origin and the mouse position of
\* this tick put them, whatever the ticks before did; the snapshot, the
\* origin and the mouse position of the gesture start are kept; a tick with
\* both scale factors 1 puts the points and handles back where they were
\* at the start of the gesture.
C26_TicksScaleTheGestureStart ==
    [][(scaling /\ lastOp'.op = "handleMouseMove")
       => LET scaleX == QAdd(I(1), QDiv(QSub(lastOp'.at.x, lastMouseX), I(100)))
              scaleY == QAdd(I(1), QDiv(QSub(lastOp'.at.y, lastMouseY), I(100)))
          IN  /\ transformStartPoints' = transformStartPoints
              /\ transformOrigin' = transformOrigin
              /\ lastMouseX' = lastMouseX /\ lastMouseY' = lastMouseY
              /\ Len(points') = Len(points)
              /\ \A i \in 1..Len(points) :
                   LET k == points[i].key
                       after == LivePointData(State)'[i]
                   IN  IF k \in DOMAIN transformStartPoints
                       THEN LET start == transformStartPoints[k]
                            IN  /\ [x |-> after.x, y |-> after.y]
                                      = scaledFrom(start, scaleX, scaleY)
                                /\ after.cp1 = scaledFrom(start.cp1, scaleX, scaleY)
                                /\ after.cp2 = scaledFrom(start.cp2, scaleX, scaleY)
                                /\ (scaleX = I(1) /\ scaleY = I(1))
                                      => /\ after.x = start.x /\ after.y = start.y
                                         /\ after.cp1 = start.cp1
                                         /\ after.cp2 = start.cp2
                       ELSE after = LivePointData(State)[i]]_vars

\* a tick with scale factors 1 that follows two events after the mouse-down
\* of the gesture, the points being back at their gesture-start positions
C26_Witness ==
    /\ scaling
    /\ lastOp.op = "handleMouseMove"
    /\ lastOp.at.x = lastMouseX /\ lastOp.at.y = lastMouseY
    /\ steps >= 3
    /\ \E i \in 1..Len(points) :
           /\ points[i].key \in DOMAIN transformStartPoints
           /\ LivePointData(State)[i].x = transformStartPoints[points[i].key].x
           /\ LivePointData(State)[i].x # transformOrigin.x

\* the names of the live points, and the keys of the Map
namesIn(s) == {s.heap[s.points[i].id].name : i \in 1..Len(s.points)}

keysIn(s) == {s.points[i].key : i \in 1..Len(s.points)}

\* the smallest n from `from` on for which "Point n" is not in `taken`
smallestFree(taken, from) ==
    CHOOSE n \in from..(from + Cardinality(taken)) :
        /\ PointName(n) \notin taken
        /\ \A k \in from..(n - 1) : PointName(k) \in taken

\* the name of the point that the last addPoint created
addedName == heap[points[Len(points)].id].name

\* C27, as the spec states it: the point that addPoint creates is named
\* "Point N" with N the smallest positive integer for which no existing
\* point has that name.
C27_NameIsSmallestUnused ==
    [][lastOp'.op = "addPoint"
       => addedName' = PointName(smallestFree(namesIn(State), 1))]_vars

\* C27, amended: the point that addPoint creates is named "Point N" with N
\* the smallest integer above the number of existing points for which
\* "Point N" is not a key of the point Map.
C27_NameIsFirstFreeAboveSize ==
    [][lastOp'.op = "addPoint"
       => /\ Len(points') = Len(points) + 1
          /\ points'[Len(points')].key = addedName'
          /\ addedName' = PointName(smallestFree(keysIn(State), Len(points) + 1))]_vars

\* an addPoint that had to skip a name: "Point size+1" was taken
C27_Witness ==
    /\ lastOp.op = "addPoint"
    /\ points # <<>>
    /\ addedName # PointName(Len(points))
    /\ PointName(Len(points)) \in keysIn(State)

\* the x of the point that the last addPoint created
addedX == heap[points[Len(points)].id].x

\* the x positions in ascending order, after the left margin of 50
marginAndPositions(s) == <<I(50)>> \o positionsOf(s)

\* the indices i at which a gap of at least 100 units starts
wideGaps(s) ==
    LET ps == marginAndPositions(s)
    IN  {i \in 1..(Len(ps) - 1) : QGe(QSub(ps[i + 1], ps[i]), I(100))}

firstWideGap(s) == CHOOSE i \in wideGaps(s) : \A j \in wideGaps(s) : i <= j

C29_AddPointAlwaysAdds ==
    [][lastOp'.op = "addPoint"
       => /\ Len(points') = Len(points) + 1
          /\ SubSeq(LivePointData(State)', 1, Len(points)) = LivePointData(State)
          /\ LivePointData(State)'[Len(points')].type = "sharp"
          /\ LivePointData(State)'[Len(points')].y = baselineY
          /\ addedName' \notin namesIn(State)
          /\ selectedPoint' = points'[Len(points')].id
          /\ lastOp'.commits = 1]_vars

\* the bracket that the scan picks for every phase close enough below
\* `phase`: the first point whose x is at or beyond it ends the bracket
bracketBelow(pts, phase) ==
    LET n == Len(pts)
        after == {i \in 1..(n - 1) : QGe(pts[i + 1].x, phase)}
    IN  IF after # {}
        THEN LET i == CHOOSE i \in after : \A j \in after : i <= j
             IN  [start |-> i, end |-> i + 1,
                  width |-> QSub(pts[i + 1].x, pts[i].x)]
        ELSE [start |-> n, end |-> 1,
              width |-> QAdd(QSub(I(1), pts[n].x), pts[1].x)]

\* the value at local parameter t of the bracket (startPoint, endPoint)
blend(startPoint, endPoint, t) ==
    QMul(IF startPoint.type = "smooth" /\ endPoint.type = "smooth"
         THEN cubicInterpolation(startPoint.y, startPoint.cp2.y,
                                 endPoint.cp1.y, endPoint.y, t)
         ELSE QAdd(startPoint.y, QMul(t, QSub(endPoint.y, startPoint.y))),
         I(displayGain))

\* the limit of the sampled value as the phase goes to 1 from below: the
\* bracket's polynomial at the phase 1
valueBelowWrap(w) ==
    LET pts == w.points
        b == bracketBelow(pts, I(1))
    IN  blend(pts[b.start], pts[b.end], QDiv(QSub(I(1), pts[b.start].x), b.width))

QAbs(q) == IF QLt(q, I(0)) THEN QNeg(q) ELSE q

\* the discontinuity of the curve at the seam, as a sampled value
seamOf(w) ==
    QMul(QAbs(QSub(w.points[Len(w.points)].y, w.points[1].y)), I(displayGain))

\* a sample at phase 0 of a normalized curve of two points or more
sampledAtWrap ==
    /\ sampled # NoSample
    /\ sampled.cycleTime = I(0)
    /\ IsNormalizedCurve(customWaveform)
    /\ Len(customWaveform.points) >= 2
    /\ ~sampled.result.threw

\* the sampled value just below the wrap and the one at phase 0 differ by
\* no more than the seam, and by nothing when the last y is the first y
continuousAtWrap ==
    LET pts == customWaveform.points
        gap == QAbs(QSub(valueBelowWrap(customWaveform), sampled.result.value))
    IN  /\ QLe(gap, seamOf(customWaveform))
        /\ pts[Len(pts)].y = pts[1].y => gap = I(0)

\* C30, as the spec states it: on a normalized curve the value sampled as
\* the phase approaches 1 from below and the value sampled at phase 0
\* differ by no more than the difference of the last and the first point's
\* y, and by nothing for a closed loop.
C30_ContinuousAcrossWrap == sampledAtWrap => continuousAtWrap

\* C30, amended: the same, for normalized curves whose first point is the
\* only point at x = 0 and in which at most one point is at x = 1; and the
\* samples taken beyond every x below 1 lie in the bracket whose value at
\* phase 1 is that limit.
C30_ContinuousAcrossWrapOfDistinctEnds ==
    LET pts == customWaveform.points
        b == bracketBelow(pts, I(1))
    IN  /\ (/\ sampledAtWrap
            /\ QGt(pts[2].x, I(0))
            /\ Cardinality({i \in 1..Len(pts) : pts[i].x = I(1)}) <= 1)
               => continuousAtWrap
        /\ (/\ sampled # NoSample
            /\ IsNormalizedCurve(customWaveform)
            /\ Len(pts) >= 2
            /\ \A i \in 1..Len(pts) :
                   QLt(pts[i].x, I(1)) => QLe(pts[i].x, sampled.cycleTime))
               => /\ sampled.bracket.start = b.start - 1
                  /\ sampled.bracket.end = b.end - 1

\* a sample at phase 0, in a later cycle, of a curve that ends at x = 1
\* higher than it starts: the values differ by exactly the seam
C30_Witness ==
    /\ sampledAtWrap
    /\ QGt(sampled.time, I(0))
    /\ QGt(customWaveform.points[2].x, I(0))
    /\ customWaveform.points[Len(customWaveform.points)].x = I(1)
    /\ seamOf(customWaveform) # I(0)
    /\ QAbs(QSub(valueBelowWrap(customWaveform), sampled.result.value))
          = seamOf(customWaveform)

\* C31: deletePoint on a curve of more than two points removes the point
\* from the point set, and when the point was selected it is afterwards
\* neither the primary selected point nor in the multi-selection.
C31_DeleteClearsSelection ==
    [][(/\ Len(points) > 2
        /\ lastOp'.op = "deleteButton"
        /\ selectedPoint # 0)
       => LET point == heap[selectedPoint]
              key == keyOf(State, selectedPoint)
          IN  /\ Len(points') = Len(points) - 1
              /\ point.name \notin namesIn(State)'
              /\ selectedPoint' = 0
              /\ key \notin selectedPoints']_vars

\* the indices i of the x-sorted positions, from the selected point's x on,
\* at which an interval of at least 100 units starts
intervalsAfterSelected(s) ==
    LET ps == positionsOf(s)
    IN  {i \in 1..(Len(ps) - 1) :
           /\ QGe(ps[i], s.heap[s.selectedPoint].x)
           /\ QGe(QSub(ps[i + 1], ps[i]), I(100))}

firstIntervalAfterSelected(s) ==
    CHOOSE i \in intervalsAfterSelected(s) : \A j \in intervalsAfterSelected(s) : i <= j

\* the placement with a selection; `into(from, to)` is the place taken in
\* the interval found
placedNextToSelected(into(_, _)) ==
    (lastOp'.op = "addPoint" /\ selectedPoint # 0)
       => LET rightEdge == QSub(canvasElementWidth, I(50))
              ps == positionsOf(State)
              crowded == lastOp'.advisory = "Canvas is getting crowded; Point added"
          IN  IF QLt(QAdd(heap[selectedPoint].x, I(100)), rightEdge)
              THEN addedX' = QAdd(heap[selectedPoint].x, I(100)) /\ ~crowded
              ELSE IF intervalsAfterSelected(State) # {}
              THEN LET i == firstIntervalAfterSelected(State)
                   IN  addedX' = into(ps[i], ps[i + 1]) /\ ~crowded
              ELSE addedX' = rightEdge /\ crowded

centreOf(from, to) == QAdd(from, QDiv(QSub(to, from), I(2)))

fiftyInto(from, to) == QAdd(from, I(50))

\* C32, as the spec states it: with a point selected, addPoint puts the new
\* point 100 units right of the selected point; when that reaches the right
\* edge, at the centre of the first interval of at least 100 units of the
\* x-sorted positions after the selected point; and with no such interval
\* at the right edge, with the crowded-canvas advisory.
C32_NextToSelectedOrCentreOfGap == [][placedNextToSelected(centreOf)]_vars

\* C32, amended: the same, the new point being put 50 units after the
\* start of the interval found, which is its centre only when the interval
\* is 100 units wide.
C32_NextToSelectedOrFiftyIntoGap == [][placedNextToSelected(fiftyInto)]_vars

\* an addPoint that went 50 units into an interval wider than 100 units
C32_Witness ==
    /\ lastOp.op = "addPoint"
    /\ lastOp.advisory = "Point added"
    /\ LET ps == positionsOf(State)
       IN  \E i \in 1..(Len(ps) - 2) :
              /\ ps[i + 1] = addedX
              /\ QSub(addedX, ps[i]) = I(50)
              /\ QGt(QSub(ps[i + 2], addedX), I(50))
              /\ \A j \in 1..Len(ps) : ps[j] # QSub(addedX, I(100))

\* the keys of the points whose anchor lies in the rectangle between two
\* world positions
anchorsBetween(s, a, b) ==
    {s.points[i].key : i \in {j \in 1..Len(s.points) :
        LET p == s.heap[s.points[j].id]
        IN  /\ QGe(p.x, QMin(a.x, b.x)) /\ QLe(p.x, QMax(a.x, b.x))
            /\ QGe(p.y, QMin(a.y, b.y)) /\ QLe(p.y, QMax(a.y, b.y))}}

\* C33: the mouse-up that ends a box-select makes the multi-selection the
\* set of points whose anchor lies in the rectangle between the world
\* positions of the gesture's start and end, united with the selection
\* there was when the modifier key is held, at every zoom level and pan
\* offset; and it commits nothing.
C33_BoxSelectsAnchorsInside ==
    [][(lastOp'.op = "handleMouseUp" /\ isBoxSelecting /\ ~isPreviewMode)
       => /\ selectedPoints' =
                (IF lastOp'.at.shiftKey THEN selectedPoints ELSE {})
                    \cup anchorsBetween(State,
                                        [x |-> boxStartX, y |-> boxStartY],
                                        screenToWorld(State, lastOp'.at.x,
                                                      lastOp'.at.y))
          /\ lastOp'.commits = 0
          /\ history' = history]_vars

\* the editor is idle: the next mouse-down is neither ignored nor the start
\* of a transform or of a pan
idle == ~isPreviewMode /\ ~isTransforming /\ ~isSpacePressed

\* a handle of the selected point is under the screen position
onHandleOfSelected(s, at) ==
    /\ s.selectedPoint # 0
    /\ \/ hit(s, at.x, at.y, s.heap[s.selectedPoint].cp1.x, s.heap[s.selectedPoint].cp1.y)
       \/ hit(s, at.x, at.y, s.heap[s.selectedPoint].cp2.x, s.heap[s.selectedPoint].cp2.y)

\* the Map entries whose anchor is under the screen position
entriesUnder(s, at) ==
    {i \in 1..Len(s.points) :
        hit(s, at.x, at.y, s.heap[s.points[i].id].x, s.heap[s.points[i].id].y)}

C35_TransformNeedsTwoSelected ==
    [][/\ (~isTransforming /\ isTransforming')
          => (lastOp'.op = "toggleTransformMode" /\ Cardinality(selectedPoints) >= 2)
       /\ (lastOp'.op = "toggleTransformMode" /\ Cardinality(selectedPoints) < 2)
          => (State' = State /\ lastOp'.commits = 0)]_vars

\* toggleTransformMode refused with one point selected, the mode inactive
C35_Witness ==
    /\ lastOp.op = "toggleTransformMode"
    /\ lastOp.advisory = "Select at least 2 points to transform"
    /\ Cardinality(selectedPoints) = 1
    /\ ~isTransforming

\* C36: the selection refers to the live curve: the primary selected point,
\* if any, is one of the Point objects held by the point set, and every id
\* in the multi-selection is a key of the point set.
C36_SelectionIsLive ==
    /\ selectedPoint # 0 => selectedPoint \in MapIds(points)
    /\ selectedPoints \subseteq MapKeys(points)

\* C37: transform-scale mode can always be left: toggleTransformMode invoked
\* while the mode is active deactivates it, whatever the selection is.
C37_TransformModeCanBeLeft ==
    [][(isTransforming /\ lastOp'.op = "toggleTransformMode")
       => ~isTransforming']_vars

\* C38: pan mode ends when the space key is released: after a space key-up
\* event isSpacePressed and isPanning are false, and a mouse-down that
\* follows it starts no pan.
C38_SpaceKeyUpEndsPan ==
    [][/\ lastOp'.op = "keyup" => (~isSpacePressed' /\ ~isPanning')
       /\ (lastOp.op = "keyup" /\ lastOp'.op = "handleMouseDown") => ~isPanning']_vars

\* C39: every preview animation tick terminates: for every point set of two
\* points or more that editing reaches, drawPreviewWave draws a finite
\* number of copies of the wave and returns.
C39_PreviewTickTerminates ==
    Len(points) >= 2 => drawPreviewWave(State).returns

\* C40: the handles of a sharp point are inert for gestures: a mouse-down
\* starts a handle-drag only on a point whose type is smooth, and a
\* mouse-down on the anchor of the selected sharp point, in the idle editor,
\* starts a point-drag.
C40_SharpHandlesAreInert ==
    [][(lastOp'.op = "handleMouseDown" /\ idle)
       => /\ (draggingControlPoint.point = 0 /\ draggingControlPoint'.point # 0)
               => heap'[draggingControlPoint'.point].type = "smooth"
          /\ (/\ selectedPoint # 0
              /\ heap[selectedPoint].type = "sharp"
              /\ draggingControlPoint.point = 0
              /\ hit(State, lastOp'.at.x, lastOp'.at.y,
                     heap[selectedPoint].x, heap[selectedPoint].y))
               => (draggingPoint' # 0 /\ draggingControlPoint'.point = 0)]_vars

====
